---- MODULE Spec2Model ----
(***************************************************************************)
(* Verification model of the Arb-Move bot (bot-rs).                        *)
(*                                                                         *)
(* Part 1: the circuit breaker (crates/strategy/src/circuit_breaker.rs),   *)
(*         driven by arbitrary call sequences (SpecCB).                    *)
(* Part 2: the strategy loop of main.rs, one action per phase of a tick    *)
(*         (SpecLoop).                                                     *)
(* Part 3: one call of Submitter::submit with its retries (SpecSubmit).    *)
(* Part 4: startup (seed_cache), the pool cache, the RPC poller and the    *)
(*         websocket stream writing to it (SpecCollector).                 *)
(* Part 5: the scanner (crates/strategy/src/scanner.rs) on snapshots of    *)
(*         the cache in every order (SpecScan).                            *)
(* Part 6: the optimizer (crates/strategy/src/optimizer.rs): ternary       *)
(*         search on arbitrary profit functions (SpecSearch), the sizing   *)
(*         of an opportunity between the venue caps (SpecSize) and the     *)
(*         CLMM simulator in fixed-point arithmetic (SpecClmm).            *)
(*                                                                         *)
(* Amounts are in MIST and times in ms, both scaled down to small          *)
(* integers; the clock is the wall clock read by now_ms() and is taken to  *)
(* be non-decreasing.                                                      *)
(***************************************************************************)
EXTENDS Integers, Sequences, FiniteSets, TLC

\* ---------------------------------------------------------------------
\* Bounds of the model
\* ---------------------------------------------------------------------

\* first clock value (ms since the epoch, scaled); later than every interval
StartMs == 4
\* number of clock advances explored after StartMs
MaxElapsed == 4
\* largest gas cost of one transaction
MaxGas == 2
\* largest profit reported by an ArbExecuted event or by the optimizer
MaxProfit == 2
\* largest configured max_consecutive_failures
MaxConsecLimit == 2
\* largest configured max_cumulative_loss_mist
MaxLossLimit == 2
\* largest configured cooldown_ms
MaxCooldown == 2
\* number of record_success / record_failure calls explored
MaxTrades == 3
\* number of arbitrage submissions explored in the strategy loop
MaxLoopTrades == 2
\* number of strategy cycles that reach the coin merger
MaxCycles == 2
\* largest wallet balance a balance query returns
MaxBalance == 3
\* largest profit an ArbExecuted event of a dry-run reports
MaxDryRunProfit == 4
\* GasMonitor.fetch_interval_ms (10_000 in the source), scaled
FetchIntervalMs == 2
\* CoinMerger.check_interval_cycles (100 in the source), scaled
CheckIntervalCycles == 2
\* MAX_POOL_STALENESS_MS (10_000 in the source), scaled
MaxPoolStalenessMs == 1
\* the opportunity age limit of the strategy loop (3_000 in the source), scaled
OppMaxAgeMs == 1

\* Option<T>: None is the empty sequence, Some(x) the singleton
None == <<>>
Some(x) == <<x>>
IsSome(o) == o # None
Unwrap(o) == o[1]

\* u64::saturating_sub
SatSub(a, b) == IF a >= b THEN a - b ELSE 0

VARIABLES
    now,      \* the wall clock, as read by now_ms()
    cb,       \* the CircuitBreaker struct
    last,     \* the most recent call on the breaker: operation, arguments, result,
              \* breaker before (SpecGas, SpecMerge: the most recent call on the
              \* gas monitor, on the coin merger)
    run,      \* record_failure calls since construction, the last record_success
              \* or the last reset (SpecGas: calls made on the gas monitor)
    pc,       \* the phase of the tick the strategy loop is about to run
    dry_run_enabled,      \* config.dry_run_before_submit
    gm,       \* the GasMonitor struct
    cycle_count,          \* CoinMerger.cycle_count
    best,     \* the opportunity being processed in this tick
    tx_bytes, \* the transaction built for it
    tick,     \* what this tick has done so far
    sub,      \* one call of Submitter::submit: position, attempt, history
    use_ws,   \* USE_WEBSOCKET: a websocket stream runs beside the poller
    boot,     \* main: position in the startup sequence, and what it saw
    cache,    \* PoolCache: pool id -> cached PoolState, if any
    heartbeat,            \* collector_heartbeat
    poller,   \* RpcPoller::run: position in the cycle, its locals, its history
    written,  \* history of the upserts: last value per pool id, whether
              \* an upsert ever lowered a last_updated_ms, and whether one
              \* came more than a liveness window after the one before it
    scan_call,  \* one use of the Scanner: the pool list, the clock it read, what
                \* scan_two_hop and scan_tri_hop returned
    search_call, \* one call of ternary_search: its arguments and what it returned
    size_call,  \* one sizing of an opportunity by the strategy loop: the pools,
                \* the simulator built for them, the sized opportunity, its PTB
    clmm_call   \* one call of simulate_clmm_arb: its arguments and what it returned

cbvars == <<now, cb, last, run>>
loopvars == <<pc, dry_run_enabled, gm, cycle_count, best, tx_bytes, tick>>
submitvars == <<sub>>
collvars == <<use_ws, boot, cache, heartbeat, poller, written>>
stratvars == <<scan_call, search_call, size_call, clmm_call>>
vars == <<now, cb, last, run, pc, dry_run_enabled, gm, cycle_count, best, tx_bytes, tick,
          sub, use_ws, boot, cache, heartbeat, poller, written, scan_call, search_call,
          size_call, clmm_call>>

\* ---------------------------------------------------------------------
\* CircuitBreaker
\* ---------------------------------------------------------------------

\* CircuitBreaker::new
NewBreaker(max_consecutive_failures, max_cumulative_loss_mist, cooldown_ms) ==
    [ max_consecutive_failures |-> max_consecutive_failures,
      max_cumulative_loss_mist |-> max_cumulative_loss_mist,
      cooldown_ms              |-> cooldown_ms,
      consecutive_failures     |-> 0,
      cumulative_pnl_mist      |-> 0,
      total_trades             |-> 0,
      tripped_at_ms            |-> None,
      trip_reason              |-> None ]

ResetClearsPnl(s) ==
    [s EXCEPT !.consecutive_failures = 0,
              !.cumulative_pnl_mist = 0,
              !.tripped_at_ms = None,
              !.trip_reason = None]

\* CircuitBreaker::reset
Reset(s) ==
    [s EXCEPT !.consecutive_failures = 0,
              !.tripped_at_ms = None,
              !.trip_reason = None]

\* CircuitBreaker::trip
Trip(s, now_ms, reason) ==
    [s EXCEPT !.tripped_at_ms = Some(now_ms),
              !.trip_reason = Some(reason)]

\* CircuitBreaker::is_trading_allowed: the breaker afterwards and the result
IsTradingAllowed(s, now_ms) ==
    IF IsSome(s.tripped_at_ms)
    THEN LET elapsed == SatSub(now_ms, Unwrap(s.tripped_at_ms))
         IN  IF elapsed >= s.cooldown_ms
             THEN [cb |-> Reset(s), ret |-> TRUE]
             ELSE [cb |-> s, ret |-> FALSE]
    ELSE [cb |-> s, ret |-> TRUE]

RecordSuccessKeepsCounter(s, profit_mist) ==
    [s EXCEPT !.total_trades = @ + 1,
              !.cumulative_pnl_mist = @ + profit_mist]

\* CircuitBreaker::record_success
RecordSuccess(s, profit_mist) ==
    [s EXCEPT !.total_trades = @ + 1,
              !.consecutive_failures = 0,
              !.cumulative_pnl_mist = @ + profit_mist]

RecordFailureStrictLimit(s, loss_mist, now_ms) ==
    LET s1 == [s EXCEPT !.total_trades = @ + 1,
                        !.consecutive_failures = @ + 1,
                        !.cumulative_pnl_mist = @ + loss_mist]
    IN  IF s1.consecutive_failures > s1.max_consecutive_failures
        THEN [cb |-> Trip(s1, now_ms, "consecutive"), ret |-> TRUE]
        ELSE IF s1.cumulative_pnl_mist <= 0 - s1.max_cumulative_loss_mist
        THEN [cb |-> Trip(s1, now_ms, "cumulative"), ret |-> TRUE]
        ELSE [cb |-> s1, ret |-> FALSE]

RecordFailureNoLossLimit(s, loss_mist, now_ms) ==
    LET s1 == [s EXCEPT !.total_trades = @ + 1,
                        !.consecutive_failures = @ + 1,
                        !.cumulative_pnl_mist = @ + loss_mist]
    IN  IF s1.consecutive_failures >= s1.max_consecutive_failures
        THEN [cb |-> Trip(s1, now_ms, "consecutive"), ret |-> TRUE]
        ELSE [cb |-> s1, ret |-> FALSE]

RecordFailureTripsAtOnce(s, loss_mist, now_ms) ==
    LET s1 == [s EXCEPT !.total_trades = @ + 1,
                        !.consecutive_failures = @ + 1,
                        !.cumulative_pnl_mist = @ + loss_mist]
    IN  [cb |-> Trip(s1, now_ms, "consecutive"), ret |-> TRUE]

\* CircuitBreaker::record_failure: the breaker afterwards and the result
RecordFailure(s, loss_mist, now_ms) ==
    LET s1 == [s EXCEPT !.total_trades = @ + 1,
                        !.consecutive_failures = @ + 1,
                        !.cumulative_pnl_mist = @ + loss_mist]
    IN  IF s1.consecutive_failures >= s1.max_consecutive_failures
        THEN [cb |-> Trip(s1, now_ms, "consecutive"), ret |-> TRUE]
        ELSE IF s1.cumulative_pnl_mist <= 0 - s1.max_cumulative_loss_mist
        THEN [cb |-> Trip(s1, now_ms, "cumulative"), ret |-> TRUE]
        ELSE [cb |-> s1, ret |-> FALSE]

\* the record kept of a call on the breaker
Call(op, p, at, ret, pre) == [op |-> op, p |-> p, at |-> at, ret |-> ret, pre |-> pre]

\* ---------------------------------------------------------------------
\* GasMonitor
\* ---------------------------------------------------------------------

\* u64::MAX, the cached balance before the first fetch
U64Max == 100

\* GasMonitor::new
NewGasMonitor(min_balance_mist) ==
    [ min_balance_mist  |-> min_balance_mist,
      cached_balance    |-> U64Max,
      last_fetch_ms     |-> 0,
      fetch_interval_ms |-> FetchIntervalMs ]

\* what GasMonitor::fetch_balance can return: an error or a balance
FetchOutcomes == {None, Some(0), Some(MaxBalance)}

\* a check_balance that stamps the fetch time when the RPC failed
CheckBalanceStampsFailure(g, now_ms, fetched) ==
    IF SatSub(now_ms, g.last_fetch_ms) < g.fetch_interval_ms /\ g.cached_balance # U64Max
    THEN [gm |-> g, ok |-> g.cached_balance >= g.min_balance_mist, how |-> "cached"]
    ELSE IF IsSome(fetched)
    THEN [gm |-> [g EXCEPT !.cached_balance = Unwrap(fetched), !.last_fetch_ms = now_ms],
          ok |-> Unwrap(fetched) >= g.min_balance_mist,
          how |-> "fetched"]
    ELSE [gm |-> [g EXCEPT !.last_fetch_ms = now_ms], ok |-> TRUE, how |-> "rpc_failed"]

\* a check_balance that fetches on every call
CheckBalanceAlwaysFetches(g, now_ms, fetched) ==
    IF IsSome(fetched)
    THEN [gm |-> [g EXCEPT !.cached_balance = Unwrap(fetched), !.last_fetch_ms = now_ms],
          ok |-> Unwrap(fetched) >= g.min_balance_mist,
          how |-> "fetched"]
    ELSE [gm |-> g, ok |-> TRUE, how |-> "rpc_failed"]

CheckBalanceTrustsCache(g, now_ms, fetched) ==
    IF SatSub(now_ms, g.last_fetch_ms) < g.fetch_interval_ms /\ g.cached_balance # U64Max
    THEN [gm |-> g, ok |-> TRUE, how |-> "cached"]
    ELSE IF IsSome(fetched)
    THEN [gm |-> [g EXCEPT !.cached_balance = Unwrap(fetched), !.last_fetch_ms = now_ms],
          ok |-> Unwrap(fetched) >= g.min_balance_mist,
          how |-> "fetched"]
    ELSE [gm |-> g, ok |-> TRUE, how |-> "rpc_failed"]

\* GasMonitor::check_balance: the monitor afterwards, whether it returned Ok,
\* and which path decided (cached balance, fetched balance, failed fetch)
CheckBalance(g, now_ms, fetched) ==
    IF SatSub(now_ms, g.last_fetch_ms) < g.fetch_interval_ms /\ g.cached_balance # U64Max
    THEN [gm |-> g, ok |-> g.cached_balance >= g.min_balance_mist, how |-> "cached"]
    ELSE IF IsSome(fetched)
    THEN [gm |-> [g EXCEPT !.cached_balance = Unwrap(fetched), !.last_fetch_ms = now_ms],
          ok |-> Unwrap(fetched) >= g.min_balance_mist,
          how |-> "fetched"]
    ELSE [gm |-> g, ok |-> TRUE, how |-> "rpc_failed"]

\* GasMonitor::deduct_gas
DeductGas(g, gas_mist) ==
    [g EXCEPT !.cached_balance = SatSub(@, gas_mist)]

\* ---------------------------------------------------------------------
\* Integer widths
\* ---------------------------------------------------------------------
\* The source computes in u128, with square-root prices in Q64.64 and a u64
\* amount. The model keeps these proportions in a narrower word: U128Bits
\* bits for a u128, half of them for a u64 and for the Q64.64 shift, a
\* quarter for the split shifts by 32.

\* bits of the model's u128
U128Bits == 12
\* bits of the model's u64, and the shift of a Q64.64 value (64 in the source)
AmountBits == U128Bits \div 2
\* the split shift (32 in the source)
HalfShift == U128Bits \div 4
\* u128::MAX and u64::MAX at these widths
U128Max == 2^U128Bits - 1
AmountMax == 2^AmountBits - 1
\* i64::MAX at this width
I64Max == 2^(AmountBits - 1) - 1
\* x as i64, for a u64 x: the upper half of the range turns negative
AsI64(x) == IF x > I64Max THEN x - 2^AmountBits ELSE x
\* a u64 product that wraps around
WrappingMul(a, b) == (a * b) % 2^AmountBits

\* ---------------------------------------------------------------------
\* Opportunities, dry-run, transaction building
\* ---------------------------------------------------------------------

\* the gas estimates the scanner attaches: 4_000_000 (tri-hop) and
\* 5_000_000 (two-hop) in the source, scaled
ScanGasEstimates == {1, 2}

\* the amount the scanner starts from (1 SUI / 5 SUI in the source), scaled
ScanAmount == 3

\* the amounts the optimizer can return
OptimizerAmounts == {1}

\* an ArbOpportunity as the scanner emits it (strategy, pools and type
\* arguments are left out here)
ScannedOpportunity(est_profit, est_gas, now_ms) ==
    [ amount_in       |-> ScanAmount,
      expected_profit |-> est_profit,
      estimated_gas   |-> est_gas,
      net_profit      |-> est_profit - est_gas,
      detected_at_ms  |-> now_ms ]

\* ArbOpportunity::is_profitable
IsProfitable(opp) == opp.net_profit > 0

\* strategy loop, step 4: the opportunity after the ternary search returned
\* (optimal_amount, max_profit)
ApplyOptimizer(opp, optimal_amount, max_profit) ==
    IF max_profit > 0
    THEN [opp EXCEPT !.amount_in = optimal_amount,
                     !.expected_profit = max_profit,
                     !.net_profit = AsI64(max_profit) - AsI64(opp.estimated_gas)]
    ELSE opp

PostOptimizationGuardsNoAgeLimit(opp, now_ms) ==
    IF opp.expected_profit = 0
    THEN [verdict |-> "zero", opp |-> opp]
    ELSE LET o == [opp EXCEPT !.net_profit = AsI64(opp.expected_profit) - AsI64(opp.estimated_gas)]
         IN  [verdict |-> IF o.net_profit <= 0 THEN "unprofitable" ELSE "pass", opp |-> o]

\* strategy loop, step 4b: "zero", "stale", "unprofitable" or "pass", and
\* the opportunity with net_profit recomputed
PostOptimizationGuards(opp, now_ms) ==
    IF opp.expected_profit = 0
    THEN [verdict |-> "zero", opp |-> opp]
    ELSE IF SatSub(now_ms, opp.detected_at_ms) > OppMaxAgeMs
    THEN [verdict |-> "stale", opp |-> opp]
    ELSE LET o == [opp EXCEPT !.net_profit = AsI64(opp.expected_profit) - AsI64(opp.estimated_gas)]
         IN  [verdict |-> IF o.net_profit <= 0 THEN "unprofitable" ELSE "pass", opp |-> o]

\* PtbBuilder::build_args: expected_profit * 9 does not fit a u64; a build
\* with overflow checks panics there, one without them goes on with the
\* wrapped product
BuildArgsOverflows(opp) == opp.expected_profit * 9 > AmountMax

\* PtbBuilder::build_args: the amount and min_profit arguments of the call
BuildArgs(opp) ==
    LET min_profit_raw == WrappingMul(opp.expected_profit, 9) \div 10
    IN  [ amount     |-> opp.amount_in,
          min_profit |-> IF min_profit_raw >= 1 THEN min_profit_raw ELSE 1 ]

\* the gas costs an RPC response reports
GasCosts == {0, MaxGas}

\* the profit parsed from the events of a response: no ArbExecuted event,
\* or its profit field
EventProfits == {None, Some(0), Some(MaxProfit)}

\* the profit parsed from the events of a dry-run
DryRunProfits == {None, Some(0), Some(MaxDryRunProfit)}

\* what DryRunner::dry_run_tx can return: an error, or a result with the
\* on-chain status, the gas cost and the profit of an ArbExecuted event
DryRunResults ==
    [success : BOOLEAN, gas_cost_mist : GasCosts, profit : DryRunProfits]

ValidateIgnoresStatus(opp, result) ==
    LET o1 == [opp EXCEPT !.estimated_gas = result.gas_cost_mist,
                          !.net_profit = opp.expected_profit - result.gas_cost_mist]
        o2 == IF IsSome(result.profit)
              THEN [o1 EXCEPT !.expected_profit = Unwrap(result.profit),
                              !.net_profit = Unwrap(result.profit) - result.gas_cost_mist]
              ELSE o1
    IN  [opp |-> o2, ret |-> IsProfitable(o2)]

\* DryRunner::validate on a dry-run result: the opportunity afterwards and
\* the value returned
Validate(opp, result) ==
    LET o1 == [opp EXCEPT !.estimated_gas = result.gas_cost_mist,
                          !.net_profit = opp.expected_profit - result.gas_cost_mist]
        o2 == IF IsSome(result.profit)
              THEN [o1 EXCEPT !.expected_profit = Unwrap(result.profit),
                              !.net_profit = Unwrap(result.profit) - result.gas_cost_mist]
              ELSE o1
    IN  IF ~result.success
        THEN [opp |-> o1, ret |-> FALSE]
        ELSE [opp |-> o2, ret |-> IsProfitable(o2)]

\* what Submitter::submit can return: an error after the retries, or a
\* SubmitResult with the on-chain status, the gas cost and the profit
SubmitOutcomes ==
    {[kind |-> "error", gas_cost_mist |-> 0, profit_mist |-> None]}
    \cup [kind : {"success", "failure"}, gas_cost_mist : GasCosts, profit_mist : EventProfits]

\* Option::unwrap_or(0)
UnwrapOr0(o) == IF IsSome(o) THEN Unwrap(o) ELSE 0

ReportOutcomeDropsErrors(s, outcome, now_ms) ==
    IF outcome.kind = "success"
    THEN LET net == UnwrapOr0(outcome.profit_mist) - outcome.gas_cost_mist
         IN  [cb |-> RecordSuccess(s, net), op |-> "record_success", p |-> net, ret |-> TRUE]
    ELSE IF outcome.kind = "failure"
    THEN LET r == RecordFailure(s, 0 - outcome.gas_cost_mist, now_ms)
         IN  [cb |-> r.cb, op |-> "record_failure", p |-> 0 - outcome.gas_cost_mist, ret |-> r.ret]
    ELSE [cb |-> s, op |-> "none", p |-> 0, ret |-> FALSE]

\* strategy loop, "Report to circuit breaker": the breaker afterwards and
\* the call that was made on it
ReportOutcome(s, outcome, now_ms) ==
    IF outcome.kind = "success"
    THEN LET net == UnwrapOr0(outcome.profit_mist) - outcome.gas_cost_mist
         IN  [cb |-> RecordSuccess(s, net), op |-> "record_success", p |-> net, ret |-> TRUE]
    ELSE IF outcome.kind = "failure"
    THEN LET r == RecordFailure(s, 0 - outcome.gas_cost_mist, now_ms)
         IN  [cb |-> r.cb, op |-> "record_failure", p |-> 0 - outcome.gas_cost_mist, ret |-> r.ret]
    ELSE LET r == RecordFailure(s, 0, now_ms)
         IN  [cb |-> r.cb, op |-> "record_failure", p |-> 0, ret |-> r.ret]

\* ---------------------------------------------------------------------
\* Submitter::submit
\* ---------------------------------------------------------------------

\* Submitter.max_retries
MaxRetries == 2

\* the backoff unit of submit (200 ms in the source), scaled
BackoffMs == 1

\* what submit_once can return: an error (request failed, RPC error,
\* missing result), or a SubmitResult with its on-chain status
SubmitOnceOutcomes ==
    [kind : {"error"}, msg : {"network", "rpc"}]
    \cup [kind : {"success", "failure"}, msg : {"none"}]

SleepBeforeRetryConstant(attempt) == BackoffMs

\* the sleep before retry number attempt (attempt >= 1)
SleepBeforeRetry(attempt) == BackoffMs * attempt

\* a call of submit that has not started: position, loop variable, time the
\* pending sleep ends, last_error, value returned, and the history of the
\* submit_once calls (time, sleep that preceded it, outcome)
NewSubmitCall ==
    [ pc         |-> "idle",
      attempt    |-> 0,
      wake_at    |-> 0,
      last_error |-> "",
      ret        |-> None,
      log        |-> <<>> ]

\* ---------------------------------------------------------------------
\* PoolCache, seeding, collectors
\* ---------------------------------------------------------------------

\* config.monitored_pools: two pools are monitored
NumPools == 2

PoolIds == 1..NumPools

\* a PoolState as a parser returns it: the pool and the timestamp handed
\* to the parser (prices and reserves are left out here)
PoolStateAt(pool_id, now_ms) ==
    [object_id |-> pool_id, last_updated_ms |-> now_ms]

\* PoolCache::new
EmptyCache == [p \in PoolIds |-> None]

UpsertReplacesMap(c, pool_id, state) ==
    [p \in PoolIds |-> IF p = pool_id THEN Some(state) ELSE None]

\* PoolCache::upsert
Upsert(c, pool_id, state) == [c EXCEPT ![pool_id] = Some(state)]

\* PoolCache::snapshot
CacheSnapshot(c) == {Unwrap(c[p]) : p \in {q \in PoolIds : IsSome(c[q])}}

\* PoolCache::len
CacheLen(c) == Cardinality({p \in PoolIds : IsSome(c[p])})

\* what one entry of a multiGetObjects response comes to: a parsed pool,
\* an object-level error, a failed DeepBook wrapper unwrap, a parse error
ObjectOutcomes == {"ok", "object_error", "unwrap_failed", "parse_failed"}

\* main before the seed; seed_ok: seed_cache returned Ok; started: the
\* strategy task was spawned; cached_at_start: cache.len() at that time
NewBoot ==
    [ pc |-> "seed", seed_ok |-> FALSE, started |-> FALSE, cached_at_start |-> 0 ]

\* RpcPoller::run before its first cycle.  ts, i, updated are the locals
\* of batch_fetch_all; steps (per entry of the running cycle: whether it
\* parsed, and the effect on the cache) and cycle (how the last cycle ended and what it
\* did to the heartbeat) are history
NewPoller ==
    [ pc      |-> "off",
      ts      |-> 0,
      i       |-> 0,
      updated |-> 0,
      steps   |-> <<>>,
      cycle   |-> [kind |-> "none", updated |-> 0, hb_stored |-> FALSE, hb_kept |-> TRUE,
                   cache_kept |-> TRUE] ]

NothingWritten == [last |-> EmptyCache, decreased |-> FALSE, gap |-> FALSE]

\* the window of the collector-liveness check of the strategy loop
LivenessWindow == MaxPoolStalenessMs * 3

\* the latest timestamp an upsert has carried so far (the start, before any)
LatestUpsert(w) ==
    LET stamps == {Unwrap(w.last[p]).last_updated_ms : p \in {q \in PoolIds : IsSome(w.last[q])}}
    IN  IF stamps = {} THEN StartMs ELSE CHOOSE t \in stamps : \A u \in stamps : u <= t

\* the history after state is upserted for pool_id into cache c; gap: some
\* upsert came more than a liveness window after the one before it
Written(w, c, pool_id, state) ==
    [ last      |-> [w.last EXCEPT ![pool_id] = Some(state)],
      decreased |-> \/ w.decreased
                    \/ /\ IsSome(c[pool_id])
                       /\ state.last_updated_ms < Unwrap(c[pool_id]).last_updated_ms,
      gap       |-> \/ w.gap
                    \/ state.last_updated_ms - LatestUpsert(w) > LivenessWindow ]

\* what a tick has done so far (history of the current loop iteration)
NewTick(trades0, pnl0) ==
    [ blocked  |-> FALSE,   \* the breaker was tripped, cooldown not elapsed
      calls    |-> {},      \* the phases run after the breaker check
      trades0  |-> trades0, \* cb.total_trades when the tick began
      pnl0     |-> pnl0,    \* cb.cumulative_pnl_mist when the tick began
      low      |-> FALSE,   \* check_balance saw a balance below the minimum
      zero_opt |-> FALSE,   \* the optimizer returned max_profit = 0
      guard    |-> "none",  \* at guard time: "ok" when expected_profit -
                            \* estimated_gas > 0 and the age is within the
                            \* limit, else "bad"
      hb_stale |-> FALSE,   \* the heartbeat read was older than the limit
      dry      |-> "none",  \* the dry-run: "error", "failed" (status not
                            \* success), "unprofitable", "passed"
      refined  |-> None,    \* expected profit after the dry-run: the
                            \* ArbExecuted profit, else the earlier estimate
      signed   |-> None,    \* the transaction bytes that were signed
      submitted |-> None,   \* the transaction bytes that were submitted
      submits  |-> 0,       \* arbitrage submissions made
      outcome  |-> None,    \* what the submission returned
      reports  |-> <<>> ]   \* the calls made on the breaker to report it

\* ---------------------------------------------------------------------
\* Scanner (crates/strategy/src/scanner.rs)
\* ---------------------------------------------------------------------
\* The scanner computes in f64.  Here a price is a positive rational <<n, d>>
\* in lowest terms, and amounts are scaled by 10^-6.

RECURSIVE GCD(_, _)
GCD(a, b) == IF b = 0 THEN a ELSE GCD(b, a % b)

Rat(n, d) == LET g == GCD(n, d) IN IF g = 0 THEN <<n, d>> ELSE <<n \div g, d \div g>>
RatMul(x, y) == Rat(x[1] * y[1], x[2] * y[2])
RatInv(x) == <<x[2], x[1]>>
RatLess(x, y) == x[1] * y[2] < y[1] * x[2]
RatMin(x, y) == IF RatLess(y, x) THEN y ELSE x
\* |x - y| / z
RatAbsDiffOver(x, y, z) ==
    LET a == x[1] * y[2]
        b == y[1] * x[2]
        diff == IF a >= b THEN a - b ELSE b - a
    IN  Rat(diff * z[2], x[2] * y[2] * z[1])
\* (amount as f64 * x * c) as u64, for a rational c: the fraction is cut off
MulTrunc(amount, x, c) == (amount * x[1] * c[1]) \div (x[2] * c[2])

\* MAX_REALISTIC_SPREAD = 0.50
MaxRealisticSpread == <<1, 2>>
\* the scan thresholds: spread > 0.001, 1.01 < cross_rate < 1.0 + MAX_REALISTIC_SPREAD
MinSpread == <<1, 1000>>
MinCrossRate == <<101, 100>>
MaxCrossRate == <<3, 2>>
\* est_amount of a two-hop (1 SUI) and a tri-hop (5 SUI) opportunity, scaled
TwoHopEstAmount == 1000
TriHopEstAmount == 5000
\* the capture factors 0.5 and 0.15
TwoHopCapture == <<1, 2>>
TriHopCapture == <<3, 20>>
\* estimated_gas of a two-hop (5_000_000) and a tri-hop (4_000_000), scaled
TwoHopGas == 5
TriHopGas == 4
\* max_staleness_ms of Scanner::new (5_000 in the source), scaled
ScannerMaxStalenessMs == 1

\* decimals_for_coin_type, for the coins of the model
decimals_for_coin_type(coin_type) ==
    CASE coin_type = "SUI" -> 9
      [] coin_type = "USDC" -> 6
      [] coin_type = "CETUS" -> 9
      [] OTHER -> 9

\* decimal_adjustment_factor: 10^(dec_a - dec_b)
decimal_adjustment_factor(coin_type_a, coin_type_b) ==
    LET diff == decimals_for_coin_type(coin_type_a) - decimals_for_coin_type(coin_type_b)
    IN  IF diff >= 0 THEN <<10^diff, 1>> ELSE <<1, 10^(0 - diff)>>

normalize_price(raw_price, coin_type_a, coin_type_b) ==
    RatMul(raw_price, decimal_adjustment_factor(coin_type_a, coin_type_b))

\* the sum of two fractions, halved
RatMid(x, y) == Rat(x[1] * y[2] + y[1] * x[2], 2 * x[2] * y[2])

\* price_a_in_b, Dex::DeepBook arm: the midpoint of bid and ask, or the one
\* there is
ClobPrice(best_bid, best_ask) ==
    IF IsSome(best_bid) /\ IsSome(best_ask)
    THEN Some(RatMid(Unwrap(best_bid), Unwrap(best_ask)))
    ELSE IF IsSome(best_bid) THEN best_bid
    ELSE IF IsSome(best_ask) THEN best_ask
    ELSE None

\* a price that falls back on the vault balances of a CLOB pool without
\* bid and ask
PriceAInBFromVaults(pool) ==
    IF pool.dex # "DeepBook" THEN pool.raw_price
    ELSE IF IsSome(ClobPrice(pool.best_bid, pool.best_ask))
    THEN ClobPrice(pool.best_bid, pool.best_ask)
    ELSE IF IsSome(pool.reserve_a) /\ IsSome(pool.reserve_b) /\ Unwrap(pool.reserve_a) > 0
    THEN Some(Rat(Unwrap(pool.reserve_b), Unwrap(pool.reserve_a)))
    ELSE None

\* PoolState::price_a_in_b: for a CLOB pool the price of the order book; for
\* the other venues the raw price the pool's own data gives (from sqrt_price
\* or the reserves), or None without data
price_a_in_b(pool) ==
    IF pool.dex = "DeepBook" THEN ClobPrice(pool.best_bid, pool.best_ask) ELSE pool.raw_price

\* a pool that is never stale
StalenessAlwaysFresh(pool, now_ms) == 0

\* PoolState::staleness_ms
staleness_ms(pool, now_ms) == SatSub(now_ms, pool.last_updated_ms)

\* Scanner::new
NewScanner(min_profit_mist) ==
    [ min_profit_mist  |-> min_profit_mist,
      max_staleness_ms |-> ScannerMaxStalenessMs ]

same_pair(a, b) ==
    \/ a.coin_type_a = b.coin_type_a /\ a.coin_type_b = b.coin_type_b
    \/ a.coin_type_a = b.coin_type_b /\ a.coin_type_b = b.coin_type_a

\* a dispatch table that also serves a sell leg on FlowX AMM, a flash leg on
\* Aftermath and two pools of one venue
ResolveStrategyServesAll(flash_dex, sell_dex) ==
    CASE flash_dex = "Cetus" /\ sell_dex = "Turbos" -> Some("CetusToTurbos")
      [] flash_dex = "Turbos" /\ sell_dex = "Cetus" -> Some("TurbosToCetus")
      [] flash_dex = "Cetus" /\ sell_dex = "DeepBook" -> Some("CetusToDeepBook")
      [] flash_dex = "DeepBook" /\ sell_dex = "Cetus" -> Some("DeepBookToCetus")
      [] flash_dex = "Turbos" /\ sell_dex = "DeepBook" -> Some("TurbosToDeepBook")
      [] flash_dex = "DeepBook" /\ sell_dex = "Turbos" -> Some("DeepBookToTurbos")
      [] flash_dex = "Cetus" /\ sell_dex = "Aftermath" -> Some("CetusToAftermath")
      [] flash_dex = "Turbos" /\ sell_dex = "Aftermath" -> Some("TurbosToAftermath")
      [] flash_dex = "DeepBook" /\ sell_dex = "Aftermath" -> Some("DeepBookToAftermath")
      [] flash_dex = "Cetus" /\ sell_dex = "FlowxClmm" -> Some("CetusToFlowxClmm")
      [] flash_dex = "FlowxClmm" /\ sell_dex = "Cetus" -> Some("FlowxClmmToCetus")
      [] flash_dex = "Turbos" /\ sell_dex = "FlowxClmm" -> Some("TurbosToFlowxClmm")
      [] flash_dex = "FlowxClmm" /\ sell_dex = "Turbos" -> Some("FlowxClmmToTurbos")
      [] flash_dex = "DeepBook" /\ sell_dex = "FlowxClmm" -> Some("DeepBookToFlowxClmm")
      [] flash_dex = "FlowxClmm" /\ sell_dex = "DeepBook" -> Some("FlowxClmmToDeepBook")
      [] flash_dex = "Cetus" /\ sell_dex = "FlowxAmm" -> Some("CetusToFlowxAmm")
      [] flash_dex = "Aftermath" /\ sell_dex = "Cetus" -> Some("AftermathToCetus")
      [] flash_dex = "Turbos" /\ sell_dex = "Turbos" -> Some("TurbosToTurbos")
      [] OTHER -> None

resolve_strategy(flash_dex, sell_dex) ==
    CASE flash_dex = "Cetus" /\ sell_dex = "Turbos" -> Some("CetusToTurbos")
      [] flash_dex = "Turbos" /\ sell_dex = "Cetus" -> Some("TurbosToCetus")
      [] flash_dex = "Cetus" /\ sell_dex = "DeepBook" -> Some("CetusToDeepBook")
      [] flash_dex = "DeepBook" /\ sell_dex = "Cetus" -> Some("DeepBookToCetus")
      [] flash_dex = "Turbos" /\ sell_dex = "DeepBook" -> Some("TurbosToDeepBook")
      [] flash_dex = "DeepBook" /\ sell_dex = "Turbos" -> Some("DeepBookToTurbos")
      [] flash_dex = "Cetus" /\ sell_dex = "Aftermath" -> Some("CetusToAftermath")
      [] flash_dex = "Turbos" /\ sell_dex = "Aftermath" -> Some("TurbosToAftermath")
      [] flash_dex = "DeepBook" /\ sell_dex = "Aftermath" -> Some("DeepBookToAftermath")
      [] flash_dex = "Cetus" /\ sell_dex = "FlowxClmm" -> Some("CetusToFlowxClmm")
      [] flash_dex = "FlowxClmm" /\ sell_dex = "Cetus" -> Some("FlowxClmmToCetus")
      [] flash_dex = "Turbos" /\ sell_dex = "FlowxClmm" -> Some("TurbosToFlowxClmm")
      [] flash_dex = "FlowxClmm" /\ sell_dex = "Turbos" -> Some("FlowxClmmToTurbos")
      [] flash_dex = "DeepBook" /\ sell_dex = "FlowxClmm" -> Some("DeepBookToFlowxClmm")
      [] flash_dex = "FlowxClmm" /\ sell_dex = "DeepBook" -> Some("FlowxClmmToDeepBook")
      [] OTHER -> None

resolve_tri_strategy(dex1, dex2, dex3) ==
    LET t == <<dex1, dex2, dex3>> IN
    CASE t = <<"Cetus", "Cetus", "Cetus">> -> Some("TriCetusCetusCetus")
      [] t = <<"Cetus", "Cetus", "Turbos">> -> Some("TriCetusCetusTurbos")
      [] t = <<"Cetus", "Turbos", "DeepBook">> -> Some("TriCetusTurbosDeepBook")
      [] t = <<"Cetus", "DeepBook", "Turbos">> -> Some("TriCetusDeepBookTurbos")
      [] t = <<"DeepBook", "Cetus", "Turbos">> -> Some("TriDeepBookCetusTurbos")
      [] t = <<"Cetus", "Cetus", "Aftermath">> -> Some("TriCetusCetusAftermath")
      [] t = <<"Cetus", "Turbos", "Aftermath">> -> Some("TriCetusTurbosAftermath")
      [] t = <<"Cetus", "Cetus", "FlowxClmm">> -> Some("TriCetusCetusFlowxClmm")
      [] t = <<"Cetus", "FlowxClmm", "Turbos">> -> Some("TriCetusFlowxClmmTurbos")
      [] t = <<"FlowxClmm", "Cetus", "Turbos">> -> Some("TriFlowxClmmCetusTurbos")
      [] OTHER -> None

resolve_tri_strategy_v2(dex1, dex2, dex3) ==
    IF <<dex1, dex2, dex3>> = <<"Cetus", "Cetus", "Cetus">>
    THEN Some("TriCetusCetusCetusV2")
    ELSE None

\* find_turbos_fee_type: the fee type of the first Turbos pool of the list
RECURSIVE find_turbos_fee_type(_)
find_turbos_fee_type(pools) ==
    IF pools = <<>> THEN None
    ELSE IF Head(pools).dex = "Turbos" THEN Head(pools).fee_type
    ELSE find_turbos_fee_type(Tail(pools))

\* opportunities.sort_by(|a, b| b.expected_profit.cmp(&a.expected_profit)):
\* a stable sort, entries of equal profit keep their order
RECURSIVE InsertByProfit(_, _)
InsertByProfit(sorted, opp) ==
    IF sorted = <<>> THEN <<opp>>
    ELSE IF Head(sorted).expected_profit >= opp.expected_profit
         THEN <<Head(sorted)>> \o InsertByProfit(Tail(sorted), opp)
         ELSE <<opp>> \o sorted

RECURSIVE SortByProfitFrom(_, _)
SortByProfitFrom(sorted, rest) ==
    IF rest = <<>> THEN sorted
    ELSE SortByProfitFrom(InsertByProfit(sorted, Head(rest)), Tail(rest))

SortByProfit(opportunities) == SortByProfitFrom(<<>>, opportunities)

\* the body of the pair loop of scan_two_hop: what it pushes for one pair
ScanPair(scanner, pool_a, pool_b, now_ms) ==
    IF \/ staleness_ms(pool_a, now_ms) > scanner.max_staleness_ms
       \/ staleness_ms(pool_b, now_ms) > scanner.max_staleness_ms
    THEN <<>>
    ELSE IF ~same_pair(pool_a, pool_b) THEN <<>>
    ELSE IF ~(IsSome(price_a_in_b(pool_a)) /\ IsSome(price_a_in_b(pool_b))) THEN <<>>
    ELSE
    LET adj_a == normalize_price(Unwrap(price_a_in_b(pool_a)),
                                 pool_a.coin_type_a, pool_a.coin_type_b)
        adj_b == normalize_price(Unwrap(price_a_in_b(pool_b)),
                                 pool_b.coin_type_a, pool_b.coin_type_b)
        norm_a == adj_a
        norm_b == IF pool_a.coin_type_a = pool_b.coin_type_a THEN adj_b ELSE RatInv(adj_b)
        spread == RatAbsDiffOver(norm_a, norm_b, RatMin(norm_a, norm_b))
        flash_pool == IF RatLess(norm_a, norm_b) THEN pool_a ELSE pool_b
        sell_pool == IF RatLess(norm_a, norm_b) THEN pool_b ELSE pool_a
        strategy == resolve_strategy(flash_pool.dex, sell_pool.dex)
        est_profit == MulTrunc(TwoHopEstAmount, spread, TwoHopCapture)
        ft == find_turbos_fee_type(<<flash_pool, sell_pool>>)
    IN  IF ~RatLess(MinSpread, spread) THEN <<>>
        ELSE IF RatLess(MaxRealisticSpread, spread) THEN <<>>
        ELSE IF ~IsSome(strategy) THEN <<>>
        ELSE IF ~(est_profit > scanner.min_profit_mist) THEN <<>>
        ELSE << [ strategy        |-> Unwrap(strategy),
                  amount_in       |-> TwoHopEstAmount,
                  expected_profit |-> est_profit,
                  estimated_gas   |-> TwoHopGas,
                  net_profit      |-> est_profit - TwoHopGas,
                  pool_ids        |-> <<flash_pool.object_id, sell_pool.object_id>>,
                  type_args       |-> <<flash_pool.coin_type_a, flash_pool.coin_type_b>>
                                      \o ft,
                  detected_at_ms  |-> now_ms ] >>

\* the pair loop of scan_two_hop, from the pair (i, j) on
RECURSIVE ScanPairsFrom(_, _, _, _, _)
ScanPairsFrom(scanner, pools, now_ms, i, j) ==
    IF i > Len(pools) THEN <<>>
    ELSE IF j > Len(pools) THEN ScanPairsFrom(scanner, pools, now_ms, i + 1, i + 2)
    ELSE ScanPair(scanner, pools[i], pools[j], now_ms)
         \o ScanPairsFrom(scanner, pools, now_ms, i, j + 1)

scan_two_hop(scanner, pools, now_ms) ==
    SortByProfit(ScanPairsFrom(scanner, pools, now_ms, 1, 2))

\* shared_token: (shared, other of p1, other of p2), or None
shared_token(p1, p2) ==
    IF p1.coin_type_a = p2.coin_type_a
    THEN Some(<<p1.coin_type_a, p1.coin_type_b, p2.coin_type_b>>)
    ELSE IF p1.coin_type_a = p2.coin_type_b
    THEN Some(<<p1.coin_type_a, p1.coin_type_b, p2.coin_type_a>>)
    ELSE IF p1.coin_type_b = p2.coin_type_a
    THEN Some(<<p1.coin_type_b, p1.coin_type_a, p2.coin_type_b>>)
    ELSE IF p1.coin_type_b = p2.coin_type_b
    THEN Some(<<p1.coin_type_b, p1.coin_type_a, p2.coin_type_a>>)
    ELSE None

pool_has_pair(pool, token_x, token_y) ==
    \/ pool.coin_type_a = token_x /\ pool.coin_type_b = token_y
    \/ pool.coin_type_a = token_y /\ pool.coin_type_b = token_x

\* pool_price_for_direction: the price of swapping from -> to on the pool
pool_price_for_direction(pool, from, to) ==
    IF ~IsSome(price_a_in_b(pool)) THEN None
    ELSE LET normalized == normalize_price(Unwrap(price_a_in_b(pool)),
                                           pool.coin_type_a, pool.coin_type_b)
         IN  IF pool.coin_type_a = from /\ pool.coin_type_b = to
             THEN Some(normalized)
             ELSE IF pool.coin_type_b = from /\ pool.coin_type_a = to
             THEN IF normalized[1] > 0 THEN Some(RatInv(normalized)) ELSE None
             ELSE None

\* the six orders resolve_tri_with_ordering tries, in its order
TriPerms == << <<1, 2, 3>>, <<1, 3, 2>>, <<2, 1, 3>>, <<2, 3, 1>>, <<3, 1, 2>>, <<3, 2, 1>> >>

\* an order that fits as soon as its venues are in the table
TriFitsV1AnyChain(pa, pb, pc3) ==
    IsSome(resolve_tri_strategy(pa.dex, pb.dex, pc3.dex))

\* a2b cycle: pool_ab<A,B> -> pool_bc<B,C> -> pool_ca<C,A>
TriFitsV1(pa, pb, pc3) ==
    /\ pa.coin_type_b = pb.coin_type_a
    /\ pb.coin_type_b = pc3.coin_type_a
    /\ pc3.coin_type_b = pa.coin_type_a
    /\ IsSome(resolve_tri_strategy(pa.dex, pb.dex, pc3.dex))

\* b2a third leg: pool_ab<A,B> -> pool_bc<B,C> -> pool_ac<A,C>
TriFitsV2(pa, pb, pc3) ==
    /\ pa.coin_type_b = pb.coin_type_a
    /\ pc3.coin_type_a = pa.coin_type_a
    /\ pc3.coin_type_b = pb.coin_type_b
    /\ IsSome(resolve_tri_strategy_v2(pa.dex, pb.dex, pc3.dex))

\* resolve_tri_with_ordering: (strategy, ordered pools, type_args) of the first
\* order that fits the a2b cycle, else of the first that fits the b2a third leg
resolve_tri_with_ordering(p1, p2, p3) ==
    LET pools == <<p1, p2, p3>>
        At(k, n) == pools[TriPerms[k][n]]
        v1 == {k \in 1..6 : TriFitsV1(At(k, 1), At(k, 2), At(k, 3))}
        v2 == {k \in 1..6 : TriFitsV2(At(k, 1), At(k, 2), At(k, 3))}
        First(s) == CHOOSE k \in s : \A m \in s : k <= m
        Found(k, strategy) ==
            Some([ strategy  |-> Unwrap(strategy),
                   ordered   |-> <<At(k, 1), At(k, 2), At(k, 3)>>,
                   type_args |-> <<At(k, 1).coin_type_a, At(k, 1).coin_type_b,
                                   At(k, 2).coin_type_b>> ])
    IN  IF v1 # {}
        THEN LET k == First(v1)
             IN Found(k, resolve_tri_strategy(At(k, 1).dex, At(k, 2).dex, At(k, 3).dex))
        ELSE IF v2 # {}
        THEN LET k == First(v2)
             IN Found(k, resolve_tri_strategy_v2(At(k, 1).dex, At(k, 2).dex, At(k, 3).dex))
        ELSE None

\* the body of the triple loop of scan_tri_hop: what it pushes for (p1, p2, p3),
\* three different entries of the list of fresh pools
ScanTriple(scanner, p1, p2, p3, now_ms) ==
    LET shared == shared_token(p1, p2) IN
    IF ~IsSome(shared) THEN <<>>
    ELSE
    LET token_b == Unwrap(shared)[1]
        token_a_from_p1 == Unwrap(shared)[2]
        token_c_from_p2 == Unwrap(shared)[3]
        price_ab == pool_price_for_direction(p1, token_a_from_p1, token_b)
        price_bc == pool_price_for_direction(p2, token_b, token_c_from_p2)
        price_ca == pool_price_for_direction(p3, token_c_from_p2, token_a_from_p1)
    IN  IF ~pool_has_pair(p3, token_c_from_p2, token_a_from_p1) THEN <<>>
        ELSE IF ~(IsSome(price_ab) /\ IsSome(price_bc) /\ IsSome(price_ca)) THEN <<>>
        ELSE
        LET cross_rate == RatMul(RatMul(Unwrap(price_ab), Unwrap(price_bc)), Unwrap(price_ca))
            resolved == resolve_tri_with_ordering(p1, p2, p3)
            spread == Rat(cross_rate[1] - cross_rate[2], cross_rate[2])
            est_profit == MulTrunc(TriHopEstAmount, spread, TriHopCapture)
            ft == find_turbos_fee_type(<<p1, p2, p3>>)
        IN  IF ~(RatLess(MinCrossRate, cross_rate) /\ RatLess(cross_rate, MaxCrossRate))
            THEN <<>>
            ELSE IF ~IsSome(resolved) THEN <<>>
            ELSE IF ~(est_profit > scanner.min_profit_mist) THEN <<>>
            ELSE << [ strategy        |-> Unwrap(resolved).strategy,
                      amount_in       |-> TriHopEstAmount,
                      expected_profit |-> est_profit,
                      estimated_gas   |-> TriHopGas,
                      net_profit      |-> est_profit - TriHopGas,
                      pool_ids        |-> [n \in 1..3 |-> Unwrap(resolved).ordered[n].object_id],
                      type_args       |-> Unwrap(resolved).type_args \o ft,
                      detected_at_ms  |-> now_ms ] >>

\* the innermost loop of scan_tri_hop for the pools i and j, from k on
RECURSIVE ScanThirdFrom(_, _, _, _, _, _)
ScanThirdFrom(scanner, fresh, now_ms, i, j, k) ==
    IF k > Len(fresh) THEN <<>>
    ELSE (IF i = j \/ i = k \/ j = k
          THEN <<>>
          ELSE ScanTriple(scanner, fresh[i], fresh[j], fresh[k], now_ms))
         \o ScanThirdFrom(scanner, fresh, now_ms, i, j, k + 1)

\* the triple loop of scan_tri_hop over the fresh pools, from (i, j, k) on
RECURSIVE ScanTriplesFrom(_, _, _, _, _, _)
ScanTriplesFrom(scanner, fresh, now_ms, i, j, k) ==
    IF i > Len(fresh) THEN <<>>
    ELSE IF j > Len(fresh) THEN ScanTriplesFrom(scanner, fresh, now_ms, i + 1, 1, 1)
    ELSE ScanThirdFrom(scanner, fresh, now_ms, i, j, k)
         \o ScanTriplesFrom(scanner, fresh, now_ms, i, j + 1, 1)

\* the same three pools, whatever their order
SamePools(a, b) ==
    {a.pool_ids[n] : n \in 1..Len(a.pool_ids)} = {b.pool_ids[n] : n \in 1..Len(b.pool_ids)}

\* Vec::dedup_by: of each run of consecutive entries over the same pools,
\* the first one stays
RECURSIVE DedupFrom(_, _)
DedupFrom(kept, rest) ==
    IF rest = <<>> THEN kept
    ELSE IF kept # <<>> /\ SamePools(Head(rest), kept[Len(kept)])
         THEN DedupFrom(kept, Tail(rest))
         ELSE DedupFrom(Append(kept, Head(rest)), Tail(rest))

Dedup(opportunities) == DedupFrom(<<>>, opportunities)

scan_tri_hop(scanner, pools, now_ms) ==
    LET IsFresh(p) == staleness_ms(p, now_ms) <= scanner.max_staleness_ms
        fresh == SelectSeq(pools, IsFresh)
    IN  SortByProfit(Dedup(ScanTriplesFrom(scanner, fresh, now_ms, 1, 1, 1)))

\* ---------------------------------------------------------------------
\* Optimizer: ternary_search (crates/strategy/src/optimizer.rs)
\* ---------------------------------------------------------------------

\* max_iterations
MaxIterations == 100

\* the state of a search: the interval, the best amount seen and its profit,
\* the iterations made and the amounts simulated so far
SearchState(lo, hi, best_amount, best_profit, iteration, evaluated) ==
    [ lo |-> lo, hi |-> hi, best_amount |-> best_amount, best_profit |-> best_profit,
      iteration |-> iteration, evaluated |-> evaluated ]

\* an iteration that keeps the third with the smaller profit
TernaryStepKeepsWorseThird(s, simulate) ==
    LET third == (s.hi - s.lo) \div 3
        m1 == s.lo + third
        m2 == s.hi - third
        p1 == simulate[m1]
        p2 == simulate[m2]
        after1 == IF p1 > s.best_profit THEN <<m1, p1>> ELSE <<s.best_amount, s.best_profit>>
        after2 == IF p2 > after1[2] THEN <<m2, p2>> ELSE after1
    IN  SearchState(IF p1 > p2 THEN m1 ELSE s.lo, IF p1 > p2 THEN s.hi ELSE m2,
                    after2[1], after2[2], s.iteration + 1, s.evaluated \cup {m1, m2})

\* one iteration of the loop
TernaryStep(s, simulate) ==
    LET third == (s.hi - s.lo) \div 3
        m1 == s.lo + third
        m2 == s.hi - third
        p1 == simulate[m1]
        p2 == simulate[m2]
        after1 == IF p1 > s.best_profit THEN <<m1, p1>> ELSE <<s.best_amount, s.best_profit>>
        after2 == IF p2 > after1[2] THEN <<m2, p2>> ELSE after1
    IN  SearchState(IF p1 < p2 THEN m1 ELSE s.lo, IF p1 < p2 THEN s.hi ELSE m2,
                    after2[1], after2[2], s.iteration + 1, s.evaluated \cup {m1, m2})

\* the loop condition: hi - lo > precision && iteration < max_iterations
TernaryGoesOn(s, precision) == s.hi - s.lo > precision /\ s.iteration < MaxIterations

\* the loop: while the condition holds, one more iteration (two iterations
\* are taken per level of the recursion)
RECURSIVE TernaryLoop(_, _, _)
TernaryLoop(s, precision, simulate) ==
    IF ~TernaryGoesOn(s, precision) THEN s
    ELSE LET s1 == TernaryStep(s, simulate)
         IN  IF ~TernaryGoesOn(s1, precision) THEN s1
             ELSE TernaryLoop(TernaryStep(s1, simulate), precision, simulate)

\* a search that returns without looking at the midpoint
TernaryFinishSkipsMidpoint(s, simulate) ==
    LET mid == s.lo + (s.hi - s.lo) \div 2
    IN  [ amount     |-> s.best_amount,
          profit     |-> s.best_profit,
          iterations |-> s.iteration,
          evaluated  |-> s.evaluated \cup {mid} ]

\* the final check at the midpoint
TernaryFinish(s, simulate) ==
    LET mid == s.lo + (s.hi - s.lo) \div 2
        p_mid == simulate[mid]
    IN  [ amount     |-> IF p_mid > s.best_profit THEN mid ELSE s.best_amount,
          profit     |-> IF p_mid > s.best_profit THEN p_mid ELSE s.best_profit,
          iterations |-> s.iteration,
          evaluated  |-> s.evaluated \cup {mid} ]

\* ternary_search(lo, hi, precision, simulate): the pair it returns, with the
\* iterations it made and the amounts it simulated
ternary_search(lo, hi, precision, simulate) ==
    IF hi <= lo
    THEN [ amount |-> lo, profit |-> simulate[lo], iterations |-> 0, evaluated |-> {lo} ]
    ELSE TernaryFinish(TernaryLoop(SearchState(lo, hi, lo, 0, 0, {}), precision, simulate),
                       simulate)

\* largest amount of the small searches
MaxSearchAmount == 4
\* profits and precisions of the small searches
SearchProfits == {0, 1, 2}
SearchPrecisions == {0, 1, 2, 3}

\* the profit function of test_ternary_search_simple_concave, on 0..100
Parabola == [x \in 0..100 |-> LET diff == IF x > 50 THEN x - 50 ELSE 50 - x
                              IN  SatSub(2500, diff * diff)]

\* largest amount of the searches of a tent
MaxTentAmount == 20
\* a concave profit function with its peak at c
Tent(c) == [x \in 0..MaxTentAmount |-> MaxTentAmount - (IF x > c THEN x - c ELSE c - x)]

\* a call of ternary_search that has not returned
NewSearchCall(lo, hi, precision, simulate) ==
    [ lo |-> lo, hi |-> hi, precision |-> precision, simulate |-> simulate, ret |-> None ]

\* ---------------------------------------------------------------------
\* The CLMM simulator (optimizer.rs simulate_clmm_arb)
\* ---------------------------------------------------------------------
\* the denominator of a fee in basis points (10_000 in the source), scaled
BpsDenominator == 10

\* u128::checked_mul
CheckedMul(a, b) == IF a * b <= U128Max THEN Some(a * b) ELSE None
\* v << n on a u128: the bits shifted beyond the word are dropped
Shl(v, n) == (v * 2^n) % 2^U128Bits
\* v >> n
Shr(v, n) == v \div 2^n

\* simulate_clmm_arb, statement by statement: its locals, the return
\* statement it left by (at, counted from the first), what it returned, and
\* what happened in the arithmetic on the way there
ClmmRun(sqrt_price_1, liquidity_1, sqrt_price_2, liquidity_2, fee_bps_1, fee_bps_2, amount_in) ==
    LET fee_1 == (amount_in * fee_bps_1) \div BpsDenominator
        after_fee_1 == SatSub(amount_in, fee_1)
        delta_sqrt_1 == Shl(after_fee_1, AmountBits) \div liquidity_1
        new_sqrt_1 == SatSub(sqrt_price_1, delta_sqrt_1)
        mul_1 == CheckedMul(liquidity_1, sqrt_price_1 - new_sqrt_1)
        amount_b_mid == IF IsSome(mul_1) THEN Shr(Unwrap(mul_1), AmountBits) ELSE 0
        fee_2 == (amount_b_mid * fee_bps_2) \div BpsDenominator
        after_fee_2 == SatSub(amount_b_mid, fee_2)
        mul_2 == CheckedMul(after_fee_2, Shr(sqrt_price_2, HalfShift))
        b_times_sqrt == IF IsSome(mul_2) THEN Shr(Unwrap(mul_2), HalfShift) ELSE U128Max
        denom == liquidity_2 - b_times_sqrt
        mul_3 == CheckedMul(liquidity_2, Shr(sqrt_price_2, HalfShift))
        quotient == Unwrap(mul_3) \div denom
        new_sqrt_2 == IF IsSome(mul_3) THEN Shl(quotient, HalfShift) ELSE 0
        delta_sqrt_2 == new_sqrt_2 - sqrt_price_2
        mul_4 == CheckedMul(liquidity_2, delta_sqrt_2)
        amount_a_out == IF IsSome(mul_4) THEN Shr(Unwrap(mul_4), AmountBits) ELSE 0
        at == IF liquidity_1 = 0 \/ liquidity_2 = 0 \/ sqrt_price_1 = 0 \/ sqrt_price_2 = 0
                 THEN 1
              ELSE IF after_fee_1 = 0 THEN 2
              ELSE IF new_sqrt_1 = 0 THEN 3
              ELSE IF amount_b_mid = 0 THEN 4
              ELSE IF after_fee_2 = 0 THEN 5
              ELSE IF b_times_sqrt >= liquidity_2 THEN 6
              ELSE IF new_sqrt_2 <= sqrt_price_2 THEN 7
              ELSE IF amount_a_out <= amount_in THEN 8
              ELSE 9
    IN  [ at |-> at,
          ret |-> IF at = 9 THEN (amount_a_out - amount_in) % 2^AmountBits ELSE 0,
          \* a checked_mul found no product
          overflowed |-> \/ at >= 4 /\ mul_1 = None
                         \/ at >= 6 /\ mul_2 = None
                         \/ at >= 7 /\ mul_3 = None
                         \/ at >= 8 /\ mul_4 = None,
          \* a shift or the narrowing to u64 dropped set bits
          lost_bits |-> \/ at >= 3 /\ after_fee_1 * 2^AmountBits > U128Max
                        \/ at >= 7 /\ IsSome(mul_3) /\ quotient * 2^HalfShift > U128Max
                        \/ at = 9 /\ amount_a_out - amount_in > AmountMax,
          \* a subtraction that saturated at 0
          saturated |-> at >= 3 /\ delta_sqrt_1 > sqrt_price_1,
          \* the input moves a leg's price out of its tick
          exceeded |-> \/ at >= 3 /\ delta_sqrt_1 >= sqrt_price_1
                       \/ at >= 6 /\ b_times_sqrt >= liquidity_2,
          \* an unchecked operation that panics: a product or a difference
          \* out of the word, a division by zero
          panicked |-> \/ at >= 2 /\ amount_in * fee_bps_1 > U128Max
                       \/ at >= 5 /\ amount_b_mid * fee_bps_2 > U128Max
                       \/ at >= 7 /\ IsSome(mul_3) /\ denom = 0
                       \/ at >= 7 /\ denom < 0
                       \/ at >= 8 /\ delta_sqrt_2 < 0
                       \/ at = 9 /\ amount_a_out < amount_in ]

simulate_clmm_arb(sqrt_price_1, liquidity_1, sqrt_price_2, liquidity_2, fee_bps_1, fee_bps_2, amount_in) ==
    ClmmRun(sqrt_price_1, liquidity_1, sqrt_price_2, liquidity_2, fee_bps_1, fee_bps_2,
            amount_in).ret

\* the pools, fees and amounts the simulator is called with
ClmmSqrtPrices == {0, 2^AmountBits, (5 * 2^AmountBits) \div 4, 2 * 2^AmountBits, U128Max}
ClmmLiquidities == {0, 1, 53, 2^AmountBits, 248}
ClmmFees == {0, 1, BpsDenominator}
ClmmAmounts == {0, 1, 11, 42, AmountMax}

\* a call of simulate_clmm_arb that has not returned
NewClmmCall(sqrt_price_1, liquidity_1, sqrt_price_2, liquidity_2, fee_bps_1, fee_bps_2, amount_in) ==
    [ sqrt_price_1 |-> sqrt_price_1, liquidity_1 |-> liquidity_1,
      sqrt_price_2 |-> sqrt_price_2, liquidity_2 |-> liquidity_2,
      fee_bps_1 |-> fee_bps_1, fee_bps_2 |-> fee_bps_2, amount_in |-> amount_in,
      run |-> None ]

\* ---------------------------------------------------------------------
\* Sizing an opportunity (optimizer.rs max_trade_amount,
\* build_local_simulator; main.rs step 4)
\* ---------------------------------------------------------------------
\* Amounts are u64 at the width of the CLMM simulator above; the constants
\* of the source keep their order: 1_000 < 100_000 < 10^10 < 10^11 < u64::MAX / 3.

\* the lower end of the search and of the clamp (1_000 in the source), scaled
MinTradeMist == 1
\* the precision of the search (100_000 in the source), scaled
TradePrecisionMist == 2
\* the cap of a pool without data (10_000_000_000 in the source), scaled
FallbackTradeMist == 9
\* MAX_TRADE_MIST (100_000_000_000 in the source), scaled
MaxTradeMist == 12
\* PoolState::MIN_CLMM_LIQUIDITY (10_000_000 in the source), scaled
MinClmmLiquidity == 8
\* virtual_depth (1_000_000_000 in the source), scaled
VirtualDepth == 20
\* the fee of a pool that reports none (30 bps in the source), scaled
DefaultFeeBps == 1

IsAmm(dex) == dex \in {"Aftermath", "FlowxAmm"}
IsClmm(dex) == dex \in {"Cetus", "Turbos", "FlowxClmm"}

\* Option::unwrap_or
UnwrapOr(o, default) == IF IsSome(o) THEN Unwrap(o) ELSE default
\* u64::min and u64::clamp
MinOf(a, b) == IF a <= b THEN a ELSE b
Clamp(x, lo, hi) == IF x < lo THEN lo ELSE IF x > hi THEN hi ELSE x

\* the upper bound of the search for one pool, before the clamp
MaxTradeRaw(pool) ==
    IF IsAmm(pool.dex)
    THEN IF IsSome(pool.reserve_a) /\ IsSome(pool.reserve_b)
         THEN MinOf(Unwrap(pool.reserve_a), Unwrap(pool.reserve_b)) \div 3
         ELSE IF IsSome(pool.reserve_a) THEN Unwrap(pool.reserve_a) \div 3
         ELSE IF IsSome(pool.reserve_b) THEN Unwrap(pool.reserve_b) \div 3
         ELSE FallbackTradeMist
    ELSE IF IsClmm(pool.dex)
    THEN IF IsSome(pool.liquidity)
         THEN (IF Shr(Unwrap(pool.liquidity), HalfShift) <= AmountMax
               THEN Shr(Unwrap(pool.liquidity), HalfShift)
               ELSE MaxTradeMist)
         ELSE FallbackTradeMist
    ELSE UnwrapOr(pool.reserve_a, FallbackTradeMist) \div 3

\* a max_trade_amount that hands out the raw bound
MaxTradeAmountUnclamped(pool) == MaxTradeRaw(pool)

\* max_trade_amount
max_trade_amount(pool) == Clamp(MaxTradeRaw(pool), MinTradeMist, MaxTradeMist)

\* simulate_xy_arb; a product of two u64 is taken in u128 and the fee
\* product stays in u64 for amounts up to MAX_TRADE_MIST
simulate_xy_arb(reserve_a1, reserve_b1, reserve_a2, reserve_b2, fee_bps_1, fee_bps_2, amount_b_in) ==
    LET fee_1 == (amount_b_in * fee_bps_1) \div BpsDenominator
        b_after_fee == SatSub(amount_b_in, fee_1)
        a_out == (reserve_a1 * b_after_fee) \div (reserve_b1 + b_after_fee)
        fee_2 == (a_out * fee_bps_2) \div BpsDenominator
        a_after_fee == SatSub(a_out, fee_2)
        b_out == (reserve_b2 * a_after_fee) \div (reserve_a2 + a_after_fee)
    IN  IF b_after_fee = 0 \/ reserve_a1 = 0 \/ reserve_b1 = 0 THEN 0
        ELSE IF a_out = 0 \/ a_out >= reserve_a1 THEN 0
        ELSE IF a_after_fee = 0 \/ reserve_a2 = 0 \/ reserve_b2 = 0 THEN 0
        ELSE IF b_out = 0 THEN 0
        ELSE SatSub(b_out, amount_b_in)

\* PoolState::price_a_in_b from the fields of the pool, as a fraction
StatePrice(pool) ==
    IF IsClmm(pool.dex)
    THEN IF UnwrapOr(pool.liquidity, 0) < MinClmmLiquidity \/ ~IsSome(pool.sqrt_price)
         THEN None
         ELSE Some(Rat(Unwrap(pool.sqrt_price) * Unwrap(pool.sqrt_price),
                       2^AmountBits * 2^AmountBits))
    ELSE IF IsAmm(pool.dex)
    THEN IF IsSome(pool.reserve_a) /\ IsSome(pool.reserve_b) /\ Unwrap(pool.reserve_a) > 0
         THEN Some(Rat(Unwrap(pool.reserve_b), Unwrap(pool.reserve_a)))
         ELSE None
    ELSE None   \* a CLOB pool without bid or ask

\* (virtual_depth as f64 * price) as u64: the fraction is cut off and the
\* cast saturates
VirtualReserve(price) == MinOf((VirtualDepth * price[1]) \div price[2], AmountMax)

\* build_local_simulator: the profit function, tabulated, and hi
build_local_simulator(flash_pool, sell_pool) ==
    LET hi == MinOf(max_trade_amount(flash_pool), max_trade_amount(sell_pool))
        fee1 == UnwrapOr(flash_pool.fee_rate_bps, DefaultFeeBps)
        fee2 == UnwrapOr(sell_pool.fee_rate_bps, DefaultFeeBps)
        price1 == UnwrapOr(StatePrice(flash_pool), <<1, 1>>)
        price2 == UnwrapOr(StatePrice(sell_pool), <<1, 1>>)
    IN  [ hi |-> hi,
          simulate |->
            IF IsAmm(flash_pool.dex) /\ IsAmm(sell_pool.dex)
            THEN [amount \in 0..AmountMax |->
                    simulate_xy_arb(UnwrapOr(flash_pool.reserve_a, 0),
                                    UnwrapOr(flash_pool.reserve_b, 0),
                                    UnwrapOr(sell_pool.reserve_a, 0),
                                    UnwrapOr(sell_pool.reserve_b, 0), fee1, fee2, amount)]
            ELSE IF IsClmm(flash_pool.dex) /\ IsClmm(sell_pool.dex)
            THEN [amount \in 0..AmountMax |->
                    simulate_clmm_arb(UnwrapOr(flash_pool.sqrt_price, 0),
                                      UnwrapOr(flash_pool.liquidity, 0),
                                      UnwrapOr(sell_pool.sqrt_price, 0),
                                      UnwrapOr(sell_pool.liquidity, 0), fee1, fee2, amount)]
            ELSE [amount \in 0..AmountMax |->
                    simulate_xy_arb(VirtualDepth, VirtualReserve(price1),
                                    VirtualDepth, VirtualReserve(price2), fee1, fee2,
                                    amount)] ]

\* a PoolState, as far as the optimizer reads it
SizedPool(object_id, dex, reserve_a, reserve_b, sqrt_price, liquidity, fee_rate_bps) ==
    [ object_id |-> object_id, dex |-> dex, reserve_a |-> reserve_a,
      reserve_b |-> reserve_b, sqrt_price |-> sqrt_price, liquidity |-> liquidity,
      fee_rate_bps |-> fee_rate_bps ]

\* the pools of each venue class the optimizer is handed
AmmPools(id) ==
    {SizedPool(id, "Aftermath", ra, rb, None, None, Some(0)) :
        ra \in {None, Some(2), Some(30), Some(AmountMax)},
        rb \in {None, Some(30), Some(AmountMax)}}
ClmmPools(id) ==
    {SizedPool(id, "Cetus", None, None, Some(sp), l, fee) :
        sp \in {2^AmountBits, (5 * 2^AmountBits) \div 4},
        l \in {None, Some(1), Some(53), Some(248), Some(U128Max)},
        fee \in {None, Some(0)}}
ClobPools(id) ==
    {SizedPool(id, "DeepBook", ra, Some(30), None, None, None) :
        ra \in {None, Some(2), Some(AmountMax)}}
SizedPools(id) == AmmPools(id) \cup ClmmPools(id) \cup ClobPools(id)

\* the best opportunity of a scan over pools 1 and 2
BestOver(est_profit, est_gas, now_ms) ==
    [pool_ids |-> <<1, 2>>] @@ ScannedOpportunity(est_profit, est_gas, now_ms)

\* the strategy loop between the scan and the build
NewSizeCall(pools, opp) ==
    [ pools  |-> pools,   \* the snapshot
      best   |-> opp,     \* the opportunity being processed
      hi     |-> None,    \* the upper bound build_local_simulator returned
      search |-> None,    \* what ternary_search returned
      args   |-> None,    \* the arguments of the built transaction
      panicked |-> FALSE ]  \* the strategy task died in an arithmetic overflow

\* ---------------------------------------------------------------------
\* The scanner on snapshots of the cache
\* ---------------------------------------------------------------------
\* main.rs scans cache.snapshot(), whose order is the map's iteration order:
\* the same pools can reach the scanner in any order.

\* config.min_profit_mist (1_000_000 by default), scaled
MinProfitMist == 100

Dexes == {"Cetus", "Turbos", "DeepBook", "Aftermath", "FlowxClmm", "FlowxAmm"}
\* the venues of the triangles of the model
TriDexes == {"Cetus", "Turbos", "DeepBook"}
\* raw prices of the pools of the model
RawPrices == {<<5, 6>>, <<1, 1>>, <<6, 5>>, <<2, 1>>}
TriRawPrices == {<<1, 1>>, <<6, 5>>}
\* a pool is updated at the edge of the staleness window, or just before it
UpdateTimes == {StartMs - ScannerMaxStalenessMs - 1, StartMs - ScannerMaxStalenessMs}

\* a PoolState with a price: a Turbos pool carries its fee type, a DeepBook
\* pool has its price as best_bid
Pool(object_id, dex, coin_type_a, coin_type_b, raw_price, last_updated_ms) ==
    [ object_id       |-> object_id,
      dex             |-> dex,
      coin_type_a     |-> coin_type_a,
      coin_type_b     |-> coin_type_b,
      raw_price       |-> IF dex = "DeepBook" THEN None ELSE raw_price,
      reserve_a       |-> None,
      reserve_b       |-> None,
      best_bid        |-> IF dex = "DeepBook" THEN raw_price ELSE None,
      best_ask        |-> None,
      last_updated_ms |-> last_updated_ms,
      fee_type        |-> IF dex = "Turbos" THEN Some("TurbosFee") ELSE None ]

\* parsers/deepbook.rs parse: the PoolState of a DeepBook pool object with
\* these vault balances
deepbook_parse(object_id, coin_type_a, coin_type_b, reserve_a, reserve_b, now_ms) ==
    [ object_id       |-> object_id,
      dex             |-> "DeepBook",
      coin_type_a     |-> coin_type_a,
      coin_type_b     |-> coin_type_b,
      raw_price       |-> None,
      reserve_a       |-> reserve_a,
      reserve_b       |-> reserve_b,
      best_bid        |-> None,
      best_ask        |-> None,
      last_updated_ms |-> now_ms,
      fee_type        |-> None ]

\* what extract_vault_balance finds for a vault
VaultBalances == {None, Some(5), Some(6)}

\* two pools, on the same pair in the same or the reversed order, or on
\* different pairs
TwoPoolLists ==
    { << Pool(1, d1, "SUI", "USDC", Some(r1), t1), Pool(2, d2, c[1], c[2], r2, t2) >> :
        d1 \in Dexes, r1 \in RawPrices, t1 \in UpdateTimes,
        d2 \in Dexes, r2 \in {Some(r) : r \in RawPrices} \cup {None}, t2 \in UpdateTimes,
        c \in {<<"SUI", "USDC">>, <<"USDC", "SUI">>, <<"SUI", "CETUS">>} }

\* three pools closing a triangle SUI, USDC, CETUS, each in either order
ThreePoolLists ==
    { << Pool(1, d1, c1[1], c1[2], Some(r1), StartMs),
         Pool(2, d2, c2[1], c2[2], Some(r2), StartMs),
         Pool(3, d3, c3[1], c3[2], Some(r3), t3) >> :
        d1 \in TriDexes, d2 \in TriDexes, d3 \in TriDexes,
        r1 \in TriRawPrices, r2 \in TriRawPrices, r3 \in TriRawPrices,
        c1 \in {<<"SUI", "USDC">>, <<"USDC", "SUI">>},
        c2 \in {<<"USDC", "CETUS">>, <<"CETUS", "USDC">>},
        c3 \in {<<"CETUS", "SUI">>, <<"SUI", "CETUS">>},
        t3 \in UpdateTimes }

\* four pools: two pools close the triangle over the same first two legs
FourPoolLists ==
    { << Pool(1, "Cetus", "SUI", "USDC", Some(r1), StartMs),
         Pool(2, "Cetus", "USDC", "CETUS", Some(<<1, 1>>), StartMs),
         Pool(3, d3, c3[1], c3[2], Some(r3), StartMs - ScannerMaxStalenessMs),
         Pool(4, d4, c4[1], c4[2], Some(r4), t4) >> :
        r1 \in TriRawPrices, r3 \in TriRawPrices, r4 \in TriRawPrices,
        d3 \in {"Cetus", "Turbos"}, d4 \in {"Cetus", "Turbos"},
        c3 \in {<<"CETUS", "SUI">>, <<"SUI", "CETUS">>},
        c4 \in {<<"CETUS", "SUI">>, <<"SUI", "CETUS">>},
        t4 \in UpdateTimes }

\* two priced pools and a DeepBook pool as its parser left it, on the pair of
\* the first pool or closing a triangle with the two
CollectedPoolLists ==
    { << Pool(1, "Cetus", "SUI", "USDC", Some(r1), StartMs),
         Pool(2, d2, c2[1], c2[2], Some(r2), StartMs),
         deepbook_parse(3, c3[1], c3[2], ra, rb, t3) >> :
        r1 \in {<<5, 6>>, <<6, 5>>}, r2 \in {<<5, 6>>, <<6, 5>>}, d2 \in {"Cetus", "Turbos"},
        c2 \in {<<"SUI", "USDC">>, <<"CETUS", "SUI">>},
        c3 \in {<<"SUI", "USDC">>, <<"USDC", "SUI">>, <<"USDC", "CETUS">>},
        ra \in VaultBalances, rb \in VaultBalances, t3 \in UpdateTimes }

\* a scanner that has not been used
NewScanCall(pools) ==
    [ scanner  |-> NewScanner(MinProfitMist),
      pools    |-> pools,    \* the snapshot handed to the scanner
      two_hop  |-> None,     \* what scan_two_hop returned for it
      tri_hop  |-> None,     \* what scan_tri_hop returned for it
      two_at   |-> None,     \* the clock scan_two_hop read
      tri_at   |-> None,     \* the clock scan_tri_hop read
      prior    |-> None ]    \* the results for the same pools in an earlier order

\* the scanner and the optimizer before they are used
IdleScan == scan_call = NewScanCall(<<>>)
IdleSearch == search_call = NewSearchCall(0, 0, 0, <<>>)
IdleSize == size_call = NewSizeCall(<<>>, BestOver(0, 0, 0))
IdleClmm == clmm_call = NewClmmCall(0, 0, 0, 0, 0, 0, 0)

InitStratVars ==
    /\ IdleScan
    /\ IdleSearch
    /\ IdleSize
    /\ IdleClmm

\* the initial state of the strategy task's own data
InitLoopVars ==
    /\ pc = "tick"
    /\ gm = NewGasMonitor(2)
    /\ cycle_count = 0
    /\ best = None
    /\ tx_bytes = None
    /\ tick = NewTick(0, 0)
    /\ sub = NewSubmitCall
    /\ boot = NewBoot
    /\ cache = EmptyCache
    /\ heartbeat = 0
    /\ poller = NewPoller
    /\ written = NothingWritten

\* ---------------------------------------------------------------------
\* The breaker under arbitrary calls
\* ---------------------------------------------------------------------

\* net results main.rs reports on success: profit - gas
SuccessNets == (0 - MaxGas) .. MaxProfit
\* losses main.rs reports on failure: -gas, or 0 for a submission error
FailureLosses == (0 - MaxGas) .. 0

InitCB ==
    /\ now = StartMs
    /\ \E m \in 1..MaxConsecLimit, l \in 1..MaxLossLimit, c \in 0..MaxCooldown :
          cb = NewBreaker(m, l, c)
    /\ last = Call("new", 0, StartMs, TRUE, cb)
    /\ run = 0
    /\ dry_run_enabled = TRUE
    /\ use_ws = FALSE
    /\ InitLoopVars
    /\ InitStratVars

\* time passes
ClockAdvance ==
    /\ now < StartMs + MaxElapsed
    /\ now' = now + 1
    /\ UNCHANGED <<cb, last, run>>
    /\ UNCHANGED loopvars
    /\ UNCHANGED <<submitvars, collvars, stratvars>>

CallIsTradingAllowed ==
    LET r == IsTradingAllowed(cb, now)
    IN  /\ cb' = r.cb
        /\ last' = Call("is_trading_allowed", 0, now, r.ret, cb)
        /\ run' = IF IsSome(cb.tripped_at_ms) /\ r.ret THEN 0 ELSE run
        /\ UNCHANGED <<now, loopvars>>
    /\ UNCHANGED <<submitvars, collvars, stratvars>>

CallRecordSuccess ==
    /\ cb.total_trades < MaxTrades
    /\ \E p \in SuccessNets :
          /\ cb' = RecordSuccess(cb, p)
          /\ last' = Call("record_success", p, now, TRUE, cb)
    /\ run' = 0
    /\ UNCHANGED <<now, loopvars>>
    /\ UNCHANGED <<submitvars, collvars, stratvars>>

CallRecordFailure ==
    /\ cb.total_trades < MaxTrades
    /\ \E p \in FailureLosses :
          LET r == RecordFailure(cb, p, now)
          IN  /\ cb' = r.cb
              /\ last' = Call("record_failure", p, now, r.ret, cb)
    /\ run' = run + 1
    /\ UNCHANGED <<now, loopvars>>
    /\ UNCHANGED <<submitvars, collvars, stratvars>>

CallReset ==
    /\ IsSome(cb.tripped_at_ms)
    /\ cb' = Reset(cb)
    /\ last' = Call("reset", 0, now, TRUE, cb)
    /\ run' = 0
    /\ UNCHANGED <<now, loopvars>>
    /\ UNCHANGED <<submitvars, collvars, stratvars>>

NextCB ==
    \/ ClockAdvance
    \/ CallIsTradingAllowed
    \/ CallRecordSuccess
    \/ CallRecordFailure
    \/ CallReset

SpecCB == InitCB /\ [][NextCB]_vars

\* ---------------------------------------------------------------------
\* One call of Submitter::submit
\* ---------------------------------------------------------------------

InitSubmit ==
    /\ now = StartMs
    /\ cb = NewBreaker(MaxConsecLimit, MaxLossLimit, MaxCooldown)
    /\ last = Call("new", 0, StartMs, TRUE, cb)
    /\ run = 0
    /\ dry_run_enabled = TRUE
    /\ use_ws = FALSE
    /\ InitLoopVars
    /\ InitStratVars

\* submit is called: the for loop starts with attempt 0, which does not sleep
SubmitBegin ==
    /\ sub.pc \in {"idle", "done"}
    /\ sub' = [NewSubmitCall EXCEPT !.pc = "attempt", !.wake_at = now]
    /\ UNCHANGED <<now, cb, last, run, loopvars, collvars, stratvars>>

\* what follows a submit_once outcome in iteration attempt of the loop
SubmitNextAttempt(attempt, outcome) ==
    IF outcome.kind # "error" THEN "return_ok"
    ELSE IF attempt < MaxRetries THEN "retry"
    ELSE "return_err"

\* one iteration of the for loop once its sleep is over: submit_once, then
\* return the result, or keep the error and sleep before the next attempt
SubmitAttempt ==
    /\ sub.pc = "attempt"
    /\ now >= sub.wake_at
    /\ \E outcome \in SubmitOnceOutcomes :
          LET entry == [at |-> now,
                        slept |-> IF sub.attempt > 0 THEN SleepBeforeRetry(sub.attempt) ELSE 0,
                        outcome |-> outcome]
              next == SubmitNextAttempt(sub.attempt, outcome)
          IN  sub' = IF next = "return_ok"
                     THEN [sub EXCEPT !.pc = "done",
                                      !.ret = Some([kind |-> outcome.kind, msg |-> "none"]),
                                      !.log = Append(@, entry)]
                     ELSE IF next = "retry"
                     THEN [sub EXCEPT !.attempt = @ + 1,
                                      !.wake_at = now + SleepBeforeRetry(sub.attempt + 1),
                                      !.last_error = outcome.msg,
                                      !.log = Append(@, entry)]
                     ELSE [sub EXCEPT !.pc = "done",
                                      !.last_error = outcome.msg,
                                      !.ret = Some([kind |-> "error", msg |-> outcome.msg]),
                                      !.log = Append(@, entry)]
    /\ UNCHANGED <<now, cb, last, run, loopvars, collvars, stratvars>>

NextSubmit ==
    \/ ClockAdvance
    \/ SubmitBegin
    \/ SubmitAttempt

SpecSubmit == InitSubmit /\ [][NextSubmit]_vars

\* ---------------------------------------------------------------------
\* Startup and the collector tasks
\* ---------------------------------------------------------------------

InitCollector ==
    /\ now = StartMs
    /\ cb = NewBreaker(MaxConsecLimit, MaxLossLimit, MaxCooldown)
    /\ last = Call("new", 0, StartMs, TRUE, cb)
    /\ run = 0
    /\ dry_run_enabled = TRUE
    /\ use_ws \in BOOLEAN
    /\ InitLoopVars
    /\ InitStratVars

\* seed_cache on a response: every entry that parses is upserted with the
\* one timestamp taken after the response
SeedCache(c, outcomes, now_ms) ==
    [p \in PoolIds |-> IF outcomes[p] = "ok"
                        THEN Some(PoolStateAt(p, now_ms))
                        ELSE c[p]]

SeedErrorIgnored == "spawn"

\* main: seed_cache(...).await? returns from main on Err
SeedError == "aborted"

\* main: seed the cache; a failed request or malformed response is an Err
Seed ==
    /\ boot.pc = "seed"
    /\ \/ /\ boot' = [boot EXCEPT !.pc = SeedError]
          /\ UNCHANGED <<cache, written>>
       \/ \E outcomes \in [PoolIds -> ObjectOutcomes] :
             /\ cache' = SeedCache(cache, outcomes, now)
             /\ written' = [written EXCEPT !.last =
                               [p \in PoolIds |-> IF outcomes[p] = "ok"
                                                   THEN Some(PoolStateAt(p, now))
                                                   ELSE None]]
             /\ boot' = [boot EXCEPT !.pc = "spawn", !.seed_ok = TRUE]
    /\ UNCHANGED <<stratvars, now, cb, last, run, loopvars, submitvars, use_ws, heartbeat, poller>>

\* main: create the heartbeat and spawn the collector task(s)
SpawnCollectors ==
    /\ boot.pc = "spawn"
    /\ heartbeat' = now
    /\ poller' = [poller EXCEPT !.pc = "tick"]
    /\ boot' = [boot EXCEPT !.pc = "strategy"]
    /\ UNCHANGED <<stratvars, now, cb, last, run, loopvars, submitvars, use_ws, cache, written>>

\* main: spawn the strategy task
StartStrategy ==
    /\ boot.pc = "strategy"
    /\ boot' = [boot EXCEPT !.pc = "running", !.started = TRUE,
                            !.cached_at_start = CacheLen(cache)]
    /\ UNCHANGED <<stratvars, now, cb, last, run, loopvars, submitvars, use_ws, cache, heartbeat,
                   poller, written>>

CacheAfterBatchErrorCleared(c) == EmptyCache

\* batch_fetch_all returning Err before the result loop: the cache is not
\* touched
CacheAfterBatchError(c) == c

HeartbeatAfterCycleAlways(hb, updated, now_ms) == now_ms

\* RpcPoller::run, Ok(updated) arm
HeartbeatAfterCycle(hb, updated, now_ms) == IF updated > 0 THEN now_ms ELSE hb

\* RpcPoller::run: interval tick and the batch request.  An Err (request
\* failed, RPC error, malformed response) is logged and the loop goes on;
\* a response fixes ts and starts the result loop
PollBegin ==
    /\ poller.pc = "tick"
    /\ \/ /\ cache' = CacheAfterBatchError(cache)
          /\ poller' = [poller EXCEPT !.pc = "tick", !.steps = <<>>, !.updated = 0,
                                      !.cycle = [kind |-> "failed", updated |-> 0,
                                                 hb_stored |-> FALSE, hb_kept |-> TRUE,
                                                 cache_kept |-> cache' = cache]]
       \/ /\ poller' = [poller EXCEPT !.pc = "results", !.ts = now, !.i = 1,
                                      !.updated = 0, !.steps = <<>>]
          /\ cache' = cache
    /\ UNCHANGED <<stratvars, now, cb, last, run, loopvars, submitvars, use_ws, boot, heartbeat,
                   written>>

ProcessObjectAbortsOnError(c, pool_id, outcome, ts) ==
    IF outcome = "ok"
    THEN [cache |-> Upsert(c, pool_id, PoolStateAt(pool_id, ts)),
          updated |-> 1, abort |-> FALSE]
    ELSE [cache |-> c, updated |-> 0, abort |-> TRUE]

\* batch_fetch_all: the body of the result loop for one entry
ProcessObject(c, pool_id, outcome, ts) ==
    IF outcome = "ok"
    THEN [cache |-> Upsert(c, pool_id, PoolStateAt(pool_id, ts)),
          updated |-> 1, abort |-> FALSE]
    ELSE [cache |-> c, updated |-> 0, abort |-> FALSE]

\* batch_fetch_all: one iteration of the result loop
PollStep ==
    /\ poller.pc = "results"
    /\ poller.i <= NumPools
    /\ \E outcome \in ObjectOutcomes :
          LET r == ProcessObject(cache, poller.i, outcome, poller.ts)
              st == PoolStateAt(poller.i, poller.ts)
              effect == IF r.cache = cache /\ outcome # "ok" THEN "kept"
                        ELSE IF r.cache = [cache EXCEPT ![poller.i] = Some(st)]
                        THEN "upserted" ELSE "other"
          IN  /\ cache' = r.cache
              /\ written' = IF outcome = "ok"
                             THEN Written(written, cache, poller.i, st) ELSE written
              /\ poller' = IF r.abort
                            THEN [poller EXCEPT !.pc = "tick",
                                                !.steps = <<>>,
                                                !.cycle = [kind |-> "aborted", updated |-> 0,
                                                           hb_stored |-> FALSE,
                                                           hb_kept |-> TRUE,
                                                           cache_kept |-> TRUE]]
                            ELSE [poller EXCEPT !.i = @ + 1,
                                                !.updated = @ + r.updated,
                                                !.steps = Append(@, [parsed |-> outcome = "ok",
                                                                     effect |-> effect])]
    /\ UNCHANGED <<stratvars, now, cb, last, run, loopvars, submitvars, use_ws, boot, heartbeat>>

\* batch_fetch_all returns Ok(updated); run stores the heartbeat
PollEnd ==
    /\ poller.pc = "results"
    /\ poller.i > NumPools
    /\ heartbeat' = HeartbeatAfterCycle(heartbeat, poller.updated, now)
    /\ poller' = [poller EXCEPT !.pc = "tick", !.steps = <<>>,
                                !.cycle = [kind |-> "ok", updated |-> poller.updated,
                                           hb_stored |-> heartbeat' = now,
                                           hb_kept |-> heartbeat' = heartbeat,
                                           cache_kept |-> TRUE]]
    /\ UNCHANGED <<stratvars, now, cb, last, run, loopvars, submitvars, use_ws, boot, cache, written>>

\* WsStream::handle_event for an event of a monitored pool: re-fetch the
\* pool; a fetched and parsed state, stamped after the response, is upserted
WsEvent ==
    /\ use_ws
    /\ boot.pc \in {"strategy", "running"}
    /\ \E pool_id \in PoolIds, fetched \in BOOLEAN :
          IF fetched
          THEN LET st == PoolStateAt(pool_id, now)
               IN  /\ cache' = Upsert(cache, pool_id, st)
                   /\ written' = Written(written, cache, pool_id, st)
          ELSE UNCHANGED <<cache, written>>
    /\ UNCHANGED <<stratvars, now, cb, last, run, loopvars, submitvars, use_ws, boot, heartbeat,
                   poller>>

NextCollector ==
    \/ ClockAdvance
    \/ Seed
    \/ SpawnCollectors
    \/ StartStrategy
    \/ PollBegin
    \/ PollStep
    \/ PollEnd
    \/ WsEvent

SpecCollector == InitCollector /\ [][NextCollector]_vars

\* ---------------------------------------------------------------------
\* The strategy loop: one action per phase of a tick
\* ---------------------------------------------------------------------

InitLoop ==
    /\ now = StartMs
    /\ cb = NewBreaker(MaxConsecLimit, MaxLossLimit, MaxCooldown)
    /\ last = Call("new", 0, StartMs, TRUE, cb)
    /\ run = 0
    /\ dry_run_enabled \in BOOLEAN
    /\ use_ws = FALSE
    /\ InitLoopVars
    /\ InitStratVars

Did(what) == [tick EXCEPT !.calls = @ \cup {what}]

\* the loop-local data is dropped when the iteration ends
EndTick ==
    /\ pc' = "tick"
    /\ best' = None
    /\ tx_bytes' = None

GateNextIgnoresBreaker(allowed) == "gas"

\* step 0a: continue to the next tick unless trading is allowed
GateNext(allowed) == IF allowed THEN "gas" ELSE "tick"

\* interval.tick() and step 0a, the circuit breaker check
TickGate ==
    /\ pc = "tick"
    /\ LET r == IsTradingAllowed(cb, now)
       IN  /\ ~r.ret \/ (cb.total_trades < MaxLoopTrades /\ cycle_count < MaxCycles)
           /\ cb' = r.cb
           /\ pc' = GateNext(r.ret)
    /\ tick' = [NewTick(cb.total_trades, cb.cumulative_pnl_mist) EXCEPT !.blocked =
                   /\ IsSome(cb.tripped_at_ms)
                   /\ now - Unwrap(cb.tripped_at_ms) < cb.cooldown_ms]
    /\ UNCHANGED <<now, last, run, dry_run_enabled, gm, cycle_count, best, tx_bytes>>
    /\ UNCHANGED <<submitvars, collvars, stratvars>>

\* step 0b, the gas balance check
GasCheck ==
    /\ pc = "gas"
    /\ \E fetched \in FetchOutcomes :
          LET r == CheckBalance(gm, now, fetched)
          IN  /\ gm' = r.gm
              /\ pc' = IF r.ok THEN "merge" ELSE "tick"
              /\ tick' = [Did("check_balance") EXCEPT !.low =
                              /\ r.how \in {"cached", "fetched"}
                              /\ r.gm.cached_balance < gm.min_balance_mist]
    /\ UNCHANGED <<now, cb, last, run, dry_run_enabled, cycle_count, best, tx_bytes>>
    /\ UNCHANGED <<submitvars, collvars, stratvars>>

\* what the merge step can come to once the coins are queried: nothing to
\* merge or a failed query/build, a signing failure, a failed submission,
\* an on-chain failure, a merge
MergeOutcomes == {"none", "sign_error", "submit_error", "failure", "merged"}

\* a merge step that reports a merge that did not go through as a failure
BreakerAfterMergeRecordsFailure(s, outcome, now_ms) ==
    IF outcome \in {"submit_error", "failure"} THEN RecordFailure(s, 0, now_ms).cb ELSE s

\* step 0c: whatever the merge comes to, no call is made on the breaker
BreakerAfterMerge(s, outcome, now_ms) == s

\* step 0c, the periodic coin merge: maybe_merge, then sign, submit and
\* deduct the gas of a successful merge
CoinMerge ==
    /\ pc = "merge"
    /\ cycle_count' = cycle_count + 1
    /\ \E outcome \in MergeOutcomes, gas \in GasCosts :
          IF cycle_count' % CheckIntervalCycles # 0
          THEN /\ gm' = gm
               /\ cb' = cb
               /\ tick' = Did("maybe_merge")
          ELSE /\ gm' = IF outcome = "merged" THEN DeductGas(gm, gas) ELSE gm
               /\ cb' = BreakerAfterMerge(cb, outcome, now)
               /\ tick' = [Did("maybe_merge") EXCEPT !.calls =
                              @ \cup (IF outcome \in {"submit_error", "failure", "merged"}
                                      THEN {"merge_sign", "merge_submit"}
                                      ELSE IF outcome = "sign_error" THEN {"merge_sign"}
                                      ELSE {})]
    /\ pc' = "liveness"
    /\ UNCHANGED <<now, last, run, dry_run_enabled, best, tx_bytes>>
    /\ UNCHANGED <<submitvars, collvars, stratvars>>

\* the times a collector task can have stored: from startup to now
StoredTimes == StartMs..now

HeartbeatStaleNever(hb_age) == FALSE

\* step 0d: the collectors appear dead
HeartbeatStale(hb_age) == hb_age > MaxPoolStalenessMs * 3

\* step 0d, the collector liveness check; the heartbeat is whatever the
\* collector tasks stored last
Liveness ==
    /\ pc = "liveness"
    /\ \E collector_heartbeat \in StoredTimes :
          /\ tick' = [Did("liveness") EXCEPT !.hb_stale =
                          now - collector_heartbeat > 3 * MaxPoolStalenessMs]
          /\ IF HeartbeatStale(SatSub(now, collector_heartbeat))
             THEN EndTick
             ELSE pc' = "snapshot" /\ UNCHANGED <<best, tx_bytes>>
    /\ UNCHANGED <<now, cb, last, run, dry_run_enabled, gm, cycle_count>>
    /\ UNCHANGED <<submitvars, collvars, stratvars>>

\* steps 1 and 1b: snapshot of the cache, empty and all-stale guards; the
\* snapshot is read as its freshest last_updated_ms, if it has an entry
Snapshot ==
    /\ pc = "snapshot"
    /\ tick' = Did("snapshot")
    /\ \E freshest \in {None} \cup {Some(t) : t \in StoredTimes} :
          IF freshest = None \/ SatSub(now, Unwrap(freshest)) > MaxPoolStalenessMs
          THEN EndTick
          ELSE pc' = "scan" /\ UNCHANGED <<best, tx_bytes>>
    /\ UNCHANGED <<now, cb, last, run, dry_run_enabled, gm, cycle_count>>
    /\ UNCHANGED <<submitvars, collvars, stratvars>>

\* steps 2 and 3: scan the snapshot and take the most profitable
\* opportunity; every opportunity the scanner emits has an estimated profit
\* above min_profit_mist, hence above zero
Scan ==
    /\ pc = "scan"
    /\ tick' = Did("scan")
    /\ \/ EndTick
       \/ \E est_profit \in 1..MaxProfit, est_gas \in ScanGasEstimates :
             /\ best' = Some(ScannedOpportunity(est_profit, est_gas, now))
             /\ pc' = "optimize"
             /\ UNCHANGED tx_bytes
    /\ UNCHANGED <<now, cb, last, run, dry_run_enabled, gm, cycle_count>>
    /\ UNCHANGED <<submitvars, collvars, stratvars>>

\* step 4: the optimizer; both pools of the opportunity come from the
\* snapshot that was scanned, so the ternary search always runs
Optimize ==
    /\ pc = "optimize"
    /\ \E optimal_amount \in OptimizerAmounts, max_profit \in 0..MaxProfit :
          /\ best' = Some(ApplyOptimizer(Unwrap(best), optimal_amount, max_profit))
          /\ tick' = [Did("optimize") EXCEPT !.zero_opt = (max_profit = 0)]
    /\ pc' = "guards"
    /\ UNCHANGED <<now, cb, last, run, dry_run_enabled, gm, cycle_count, tx_bytes>>
    /\ UNCHANGED <<submitvars, collvars, stratvars>>

\* step 4b: the post-optimization guards
Guards ==
    /\ pc = "guards"
    /\ LET g == PostOptimizationGuards(Unwrap(best), now)
           o == Unwrap(best)
       IN  /\ tick' = [Did("guards") EXCEPT !.guard =
                           IF /\ o.expected_profit - o.estimated_gas > 0
                              /\ now - o.detected_at_ms <= OppMaxAgeMs
                           THEN "ok" ELSE "bad"]
           /\ IF g.verdict = "pass"
              THEN pc' = "build" /\ best' = Some(g.opp) /\ UNCHANGED tx_bytes
              ELSE EndTick
    /\ UNCHANGED <<now, cb, last, run, dry_run_enabled, gm, cycle_count>>
    /\ UNCHANGED <<submitvars, collvars, stratvars>>

\* step 5: build the transaction
Build ==
    /\ pc = "build"
    /\ tick' = Did("build")
    /\ \/ EndTick
       \/ /\ tx_bytes' = Some(BuildArgs(Unwrap(best)))
          /\ pc' = IF dry_run_enabled THEN "dry_run" ELSE "sign"
          /\ UNCHANGED best
    /\ UNCHANGED <<now, cb, last, run, dry_run_enabled, gm, cycle_count>>
    /\ UNCHANGED <<submitvars, collvars, stratvars>>

\* step 6: dry-run validation
DryRun ==
    /\ pc = "dry_run"
    /\ \/ /\ tick' = [Did("dry_run") EXCEPT !.dry = "error"]
          /\ EndTick
       \/ \E result \in DryRunResults :
             LET v == Validate(Unwrap(best), result)
                 profit == IF IsSome(result.profit) THEN Unwrap(result.profit)
                           ELSE Unwrap(best).expected_profit
             IN  /\ tick' = [Did("dry_run") EXCEPT !.dry =
                                 IF ~result.success THEN "failed"
                                 ELSE IF profit - result.gas_cost_mist > 0 THEN "passed"
                                 ELSE "unprofitable",
                                                   !.refined = Some(profit)]
                 /\ IF v.ret
                    THEN pc' = "rebuild" /\ best' = Some(v.opp) /\ UNCHANGED tx_bytes
                    ELSE EndTick
    /\ UNCHANGED <<now, cb, last, run, dry_run_enabled, gm, cycle_count>>
    /\ UNCHANGED <<submitvars, collvars, stratvars>>

RebuiltKeepsFirstBuild(opp, first_build) == first_build

\* step 6b: tx_bytes_final, built again from the opportunity
Rebuilt(opp, first_build) == Some(BuildArgs(opp))

\* step 6b: rebuild the transaction from the opportunity the dry-run updated
Rebuild ==
    /\ pc = "rebuild"
    /\ tick' = Did("rebuild")
    /\ \/ EndTick
       \/ /\ tx_bytes' = Rebuilt(Unwrap(best), tx_bytes)
          /\ pc' = "sign"
          /\ UNCHANGED best
    /\ UNCHANGED <<now, cb, last, run, dry_run_enabled, gm, cycle_count>>
    /\ UNCHANGED <<submitvars, collvars, stratvars>>

\* step 7, first half: sign
Sign ==
    /\ pc = "sign"
    /\ tick' = [Did("sign") EXCEPT !.signed = tx_bytes]
    /\ \/ EndTick
       \/ pc' = "submit" /\ UNCHANGED <<best, tx_bytes>>
    /\ UNCHANGED <<now, cb, last, run, dry_run_enabled, gm, cycle_count>>
    /\ UNCHANGED <<submitvars, collvars, stratvars>>

\* step 7, second half: submit, deduct the gas, report to the breaker
Submit ==
    /\ pc = "submit"
    /\ \E outcome \in SubmitOutcomes :
          LET r == ReportOutcome(cb, outcome, now)
          IN  /\ cb' = r.cb
              /\ gm' = IF outcome.kind = "error" THEN gm
                       ELSE DeductGas(gm, outcome.gas_cost_mist)
              /\ tick' = [Did("submit") EXCEPT !.submits = @ + 1,
                                                !.submitted = tx_bytes,
                                                !.outcome = Some(outcome),
                                                !.reports = IF r.op = "none" THEN @
                                                             ELSE Append(@, [op |-> r.op, p |-> r.p,
                                                                             at |-> now, ret |-> r.ret])]
    /\ EndTick
    /\ UNCHANGED <<now, last, run, dry_run_enabled, cycle_count>>
    /\ UNCHANGED <<submitvars, collvars, stratvars>>

NextLoop ==
    \/ ClockAdvance
    \/ TickGate
    \/ GasCheck
    \/ CoinMerge
    \/ Liveness
    \/ Snapshot
    \/ Scan
    \/ Optimize
    \/ Guards
    \/ Build
    \/ DryRun
    \/ Rebuild
    \/ Sign
    \/ Submit

SpecLoop == InitLoop /\ [][NextLoop]_vars

\* ---------------------------------------------------------------------
\* The gas monitor under arbitrary calls (SpecGas)
\* ---------------------------------------------------------------------

\* number of calls on the gas monitor explored
MaxGasCalls == 5

\* the record kept of a call on the gas monitor
GasCall(op, p, at, how, ok, pre, prev_how, prev_fetched_at, fetched_at) ==
    [ op |-> op,         \* "new", "check_balance", "deduct_gas"
      p |-> p,           \* deduct_gas: the gas
      at |-> at,         \* the clock at the call
      how |-> how,       \* check_balance: the path that decided
      ok |-> ok,         \* check_balance: it returned Ok
      pre |-> pre,       \* the monitor before the call
      prev_how |-> prev_how,   \* the path of the check_balance call before it
      prev_fetched_at |-> prev_fetched_at, \* the last successful fetch before it
      fetched_at |-> fetched_at ]          \* the last successful fetch so far

InitGas ==
    /\ now = StartMs
    /\ cb = NewBreaker(MaxConsecLimit, MaxLossLimit, MaxCooldown)
    /\ InitLoopVars
    /\ last = GasCall("new", 0, StartMs, "none", TRUE, gm, "none", None, None)
    /\ run = 0
    /\ dry_run_enabled = TRUE
    /\ use_ws = FALSE
    /\ InitStratVars

\* gas_monitor.check_balance(now_ms())
CallCheckBalance ==
    /\ run < MaxGasCalls
    /\ \E fetched \in FetchOutcomes :
          LET r == CheckBalance(gm, now, fetched)
          IN  /\ gm' = r.gm
              /\ last' = GasCall("check_balance", 0, now, r.how, r.ok, gm,
                                 IF last.op = "check_balance" THEN last.how ELSE last.prev_how,
                                 last.fetched_at,
                                 IF r.how = "fetched" THEN Some(now) ELSE last.fetched_at)
    /\ run' = run + 1
    /\ UNCHANGED <<now, cb, pc, dry_run_enabled, cycle_count, best, tx_bytes, tick>>
    /\ UNCHANGED <<submitvars, collvars, stratvars>>

\* the gas a deduct_gas call is handed
DeductedGas == GasCosts \cup {MaxBalance + 1}

\* gas_monitor.deduct_gas(gas)
CallDeductGas ==
    /\ run < MaxGasCalls
    /\ \E gas \in DeductedGas :
          /\ gm' = DeductGas(gm, gas)
          /\ last' = GasCall("deduct_gas", gas, now, "none", TRUE, gm,
                             IF last.op = "check_balance" THEN last.how ELSE last.prev_how,
                             last.fetched_at, last.fetched_at)
    /\ run' = run + 1
    /\ UNCHANGED <<now, cb, pc, dry_run_enabled, cycle_count, best, tx_bytes, tick>>
    /\ UNCHANGED <<submitvars, collvars, stratvars>>

NextGas ==
    \/ ClockAdvance
    \/ CallCheckBalance
    \/ CallDeductGas

SpecGas == InitGas /\ [][NextGas]_vars

\* ---------------------------------------------------------------------
\* The coin merger: maybe_merge and its coin enumeration (SpecMerge)
\* ---------------------------------------------------------------------

\* number of maybe_merge calls explored
MaxMergeCalls == 4
\* largest number of pages the wallet's coins fill
MaxCoinPages == 2
\* number of suix_getCoins requests explored within one enumeration
MaxCoinRequests == 3
\* CoinMerger.merge_threshold (20 in the source), scaled
MergeThreshold == 1

\* the wallet as an honest server pages it: page c holds the coin c, the
\* first page answers the null cursor, the cursor of a later page is its number
PageOf(cursor) == IF IsSome(cursor) THEN Unwrap(cursor) ELSE 1
HonestPage(pages, cursor) ==
    [ data |-> <<PageOf(cursor)>>,
      has_next |-> PageOf(cursor) < pages,
      next_cursor |-> IF PageOf(cursor) < pages THEN Some(PageOf(cursor) + 1) ELSE None ]

\* what a server can answer to suix_getCoins: "data" with a coin or without,
\* "hasNextPage" true or false (or absent), "nextCursor" a string or null
CoinPages ==
    [ data : {<<>>} \cup {<<c>> : c \in 1..MaxCoinPages},
      has_next : BOOLEAN,
      next_cursor : {None} \cup {Some(c) : c \in 1..MaxCoinPages} ]

\* a maybe_merge call: the counter it left, its suix_getCoins requests and
\* what it returned
MergeCall(pages, n, cursor, all_coins, requests, honest, ret) ==
    [ pages |-> pages,         \* pages of the wallet
      n |-> n,                 \* cycle_count after the increment
      cursor |-> cursor,       \* fetch_sui_coins: cursor
      all_coins |-> all_coins, \* fetch_sui_coins: all_coins
      requests |-> requests,   \* the cursors of the requests made, in order
      honest |-> honest,       \* every answer so far was the wallet's page
      ret |-> ret ]            \* None while it runs; "none" for Ok(None),
                               \* "merge" for Ok(Some(tx)), "error" for Err

InitMerge ==
    /\ now = StartMs
    /\ cb = NewBreaker(MaxConsecLimit, MaxLossLimit, MaxCooldown)
    /\ InitLoopVars
    /\ \E pages \in 1..MaxCoinPages :
          last = MergeCall(pages, 0, None, <<>>, <<>>, TRUE, Some("none"))
    /\ run = 0
    /\ dry_run_enabled = TRUE
    /\ use_ws = FALSE
    /\ InitStratVars

\* an interval test that lets the first call of each interval through
SkipsCycleOffByOne(count) == (count - 1) % CheckIntervalCycles # 0

\* maybe_merge: the test that ends all calls but every CheckIntervalCycles-th
SkipsCycle(count) == count % CheckIntervalCycles # 0

\* maybe_merge up to the interval test: the counter, then Ok(None) or the
\* start of fetch_sui_coins
CallMaybeMerge ==
    /\ pc = "tick"
    /\ cycle_count < MaxMergeCalls
    /\ cycle_count' = cycle_count + 1
    /\ IF SkipsCycle(cycle_count')
       THEN /\ last' = MergeCall(last.pages, cycle_count', None, <<>>, <<>>, TRUE, Some("none"))
            /\ pc' = "tick"
       ELSE /\ last' = MergeCall(last.pages, cycle_count', None, <<>>, <<>>, TRUE, None)
            /\ pc' = "get_coins"
    /\ UNCHANGED <<now, cb, run, dry_run_enabled, gm, best, tx_bytes, tick>>
    /\ UNCHANGED <<submitvars, collvars, stratvars>>

\* the end of maybe_merge once fetch_sui_coins returned the coins: nothing
\* to merge, or build_merge_tx, which can fail
MergeOrNot(coins, build_ok) ==
    IF Len(coins) <= MergeThreshold THEN "none"
    ELSE IF build_ok THEN "merge" ELSE "error"

\* one turn of the loop of fetch_sui_coins: the request with the current
\* cursor and what follows from its answer
GetCoinsPage ==
    /\ pc = "get_coins"
    /\ Len(last.requests) < MaxCoinRequests
    /\ LET requests == Append(last.requests, last.cursor)
       IN  \/ \* the request fails, or the body holds an error or no result
              /\ last' = [last EXCEPT !.requests = requests, !.ret = Some("error")]
              /\ pc' = "tick"
           \/ \E page \in CoinPages, build_ok \in BOOLEAN :
                 LET coins == last.all_coins \o page.data
                     honest == last.honest /\ page = HonestPage(last.pages, last.cursor)
                 IN  IF page.has_next
                     THEN /\ last' = [last EXCEPT !.requests = requests,
                                                  !.all_coins = coins,
                                                  !.honest = honest,
                                                  !.cursor = page.next_cursor]
                          /\ pc' = "get_coins"
                     ELSE /\ last' = [last EXCEPT !.requests = requests,
                                                  !.all_coins = coins,
                                                  !.honest = honest,
                                                  !.ret = Some(MergeOrNot(coins, build_ok))]
                          /\ pc' = "tick"
    /\ UNCHANGED <<now, cb, run, dry_run_enabled, gm, cycle_count, best, tx_bytes, tick>>
    /\ UNCHANGED <<submitvars, collvars, stratvars>>

NextMerge ==
    \/ CallMaybeMerge
    \/ GetCoinsPage

SpecMerge == InitMerge /\ [][NextMerge]_vars

\* ---------------------------------------------------------------------
\* The scanner on reordered snapshots (SpecScan)
\* ---------------------------------------------------------------------

InitScan ==
    /\ now = StartMs
    /\ cb = NewBreaker(MaxConsecLimit, MaxLossLimit, MaxCooldown)
    /\ last = Call("new", 0, StartMs, TRUE, cb)
    /\ run = 0
    /\ dry_run_enabled = TRUE
    /\ use_ws = FALSE
    /\ InitLoopVars
    /\ \E pools \in TwoPoolLists \cup ThreePoolLists \cup FourPoolLists \cup CollectedPoolLists :
          scan_call = NewScanCall(pools)
    /\ IdleSearch
    /\ IdleSize
    /\ IdleClmm

\* main.rs 275: scanner.scan_two_hop(&pools)
CallScanTwoHop ==
    /\ scan_call.two_hop = None
    /\ scan_call' = [scan_call EXCEPT
                        !.two_hop = Some(scan_two_hop(scan_call.scanner, scan_call.pools, now)),
                        !.two_at = Some(now)]
    /\ UNCHANGED <<cbvars, loopvars, submitvars, collvars, search_call, size_call, clmm_call>>

\* main.rs 276: scanner.scan_tri_hop(&pools)
CallScanTriHop ==
    /\ scan_call.tri_hop = None
    /\ scan_call' = [scan_call EXCEPT
                        !.tri_hop = Some(scan_tri_hop(scan_call.scanner, scan_call.pools, now)),
                        !.tri_at = Some(now)]
    /\ UNCHANGED <<cbvars, loopvars, submitvars, collvars, search_call, size_call, clmm_call>>

\* the orders of a list of n entries
Orders(n) == {f \in [1..n -> 1..n] : \A i, j \in 1..n : i # j => f[i] # f[j]}

\* the next snapshot holds the same pools in another order
SnapshotReordered ==
    /\ IsSome(scan_call.two_hop) /\ IsSome(scan_call.tri_hop)
    /\ scan_call.prior = None
    /\ \E f \in Orders(Len(scan_call.pools)) :
          /\ \E i \in DOMAIN f : f[i] # i
          /\ scan_call' = [scan_call EXCEPT
                !.pools = [i \in 1..Len(scan_call.pools) |-> scan_call.pools[f[i]]],
                !.two_hop = None, !.tri_hop = None, !.two_at = None, !.tri_at = None,
                !.prior = Some([ two_hop |-> Unwrap(scan_call.two_hop),
                                 tri_hop |-> Unwrap(scan_call.tri_hop) ])]
    /\ UNCHANGED <<cbvars, loopvars, submitvars, collvars, search_call, size_call, clmm_call>>

NextScan ==
    \/ CallScanTwoHop
    \/ CallScanTriHop
    \/ SnapshotReordered

SpecScan == InitScan /\ [][NextScan]_vars


\* ---------------------------------------------------------------------
\* Properties of the circuit breaker
\* ---------------------------------------------------------------------

Tripped(s) == IsSome(s.tripped_at_ms)

\* the trip conditions of record_failure, on the breaker after the call
TripCondition(s) ==
    \/ s.consecutive_failures >= s.max_consecutive_failures
    \/ 0 - s.cumulative_pnl_mist >= s.max_cumulative_loss_mist

\* C1: once max_consecutive_failures record_failure calls have been made in
\* a row (no record_success and no reset since the run began), the call that
\* completes the run returns true and trips the breaker at its own time; and
\* is_trading_allowed(now) on a tripped breaker returns false, changing
\* nothing, for every now earlier than the trip time plus cooldown_ms.
C1_TripAfterConsecutiveFailures ==
    /\ (last.op = "record_failure" /\ run >= cb.max_consecutive_failures)
          => (last.ret /\ cb.tripped_at_ms = Some(last.at))
    /\ (/\ last.op = "is_trading_allowed"
        /\ Tripped(last.pre)
        /\ last.at < Unwrap(last.pre.tripped_at_ms) + last.pre.cooldown_ms)
          => (~last.ret /\ cb = last.pre)

\* a run of at least two failures tripped the breaker and a later
\* is_trading_allowed inside the cooldown was refused
C1_Witness ==
    /\ last.op = "is_trading_allowed"
    /\ ~last.ret
    /\ last.pre.trip_reason = Some("consecutive")
    /\ last.pre.max_consecutive_failures >= 2
    /\ run >= last.pre.max_consecutive_failures
    /\ last.at > Unwrap(last.pre.tripped_at_ms)

\* C2: record_failure(p, now) adds p to cumulative_pnl_mist and one to
\* consecutive_failures; it returns true exactly when one of the two trip
\* conditions holds afterwards, and then the trip time is now; otherwise it
\* returns false and leaves the trip state as it was (untripped stays
\* untripped).
C2_RecordFailureContract ==
    last.op = "record_failure" =>
        /\ cb.cumulative_pnl_mist = last.pre.cumulative_pnl_mist + last.p
        /\ cb.consecutive_failures = last.pre.consecutive_failures + 1
        /\ last.ret <=> TripCondition(cb)
        /\ last.ret => cb.tripped_at_ms = Some(last.at)
        /\ ~last.ret => /\ cb.tripped_at_ms = last.pre.tripped_at_ms
                        /\ cb.trip_reason = last.pre.trip_reason
        /\ (~last.ret /\ ~Tripped(last.pre)) => ~Tripped(cb)

\* a failure below the consecutive limit tripped the breaker on cumulative loss
C2_Witness ==
    /\ last.op = "record_failure"
    /\ last.ret
    /\ ~Tripped(last.pre)
    /\ cb.consecutive_failures < cb.max_consecutive_failures
    /\ cb.trip_reason = Some("cumulative")

\* C3: is_trading_allowed(now) on a tripped breaker whose cooldown has
\* elapsed returns true and clears the trip, its reason and
\* consecutive_failures while keeping cumulative_pnl_mist; on an untripped
\* breaker it returns true and changes nothing.
C3_CooldownReset ==
    last.op = "is_trading_allowed" =>
        /\ (/\ Tripped(last.pre)
            /\ last.at - Unwrap(last.pre.tripped_at_ms) >= last.pre.cooldown_ms)
              => /\ last.ret
                 /\ cb.tripped_at_ms = None
                 /\ cb.trip_reason = None
                 /\ cb.consecutive_failures = 0
                 /\ cb.cumulative_pnl_mist = last.pre.cumulative_pnl_mist
        /\ ~Tripped(last.pre) => (last.ret /\ cb = last.pre)

\* a breaker tripped with a recorded loss was reset by an elapsed cooldown
C3_Witness ==
    /\ last.op = "is_trading_allowed"
    /\ Tripped(last.pre)
    /\ last.ret
    /\ last.pre.consecutive_failures > 0
    /\ last.pre.cumulative_pnl_mist < 0
    /\ last.pre.cooldown_ms > 0

\* C4: record_success(p) adds p to cumulative_pnl_mist (it does not forget
\* the loss recorded so far) and sets consecutive_failures to 0.
C4_RecordSuccessContract ==
    last.op = "record_success" =>
        /\ cb.cumulative_pnl_mist = last.pre.cumulative_pnl_mist + last.p
        /\ cb.consecutive_failures = 0
        /\ cb.tripped_at_ms = last.pre.tripped_at_ms

\* a success arrived after failures that had lost money
C4_Witness ==
    /\ last.op = "record_success"
    /\ last.pre.consecutive_failures > 0
    /\ last.pre.cumulative_pnl_mist < 0
    /\ cb.cumulative_pnl_mist < 0

\* C5 as stated: with max_consecutive_failures > 1, one record_failure(-gas)
\* on an untripped breaker with consecutive_failures = 0 returns false and
\* leaves the breaker untripped.
C5_SingleFailureNeverTrips ==
    (/\ last.op = "record_failure"
     /\ last.pre.max_consecutive_failures > 1
     /\ ~Tripped(last.pre)
     /\ last.pre.consecutive_failures = 0)
        => (~last.ret /\ ~Tripped(cb))

\* C5 amended: the same, provided the cumulative loss after the failure is
\* still below max_cumulative_loss_mist.
C5_SingleFailureBelowLossLimit ==
    (/\ last.op = "record_failure"
     /\ last.pre.max_consecutive_failures > 1
     /\ ~Tripped(last.pre)
     /\ last.pre.consecutive_failures = 0
     /\ 0 - (last.pre.cumulative_pnl_mist + last.p) < last.pre.max_cumulative_loss_mist)
        => (~last.ret /\ ~Tripped(cb))

\* a first failure that cost gas, after earlier trades, did not trip
C5_Witness ==
    /\ last.op = "record_failure"
    /\ last.pre.max_consecutive_failures > 1
    /\ ~Tripped(last.pre)
    /\ last.pre.consecutive_failures = 0
    /\ last.pre.total_trades >= 2
    /\ last.p < 0
    /\ ~last.ret

\* ---------------------------------------------------------------------
\* Properties of the strategy loop
\* ---------------------------------------------------------------------

\* C6: every arbitrage submission of a tick is reported to the breaker
\* exactly once in that tick (one report per submission, total_trades moved
\* by the number of submissions, cumulative P&L moved by the reported
\* amount): on-chain success as record_success(profit - gas), on-chain
\* failure as record_failure(-gas), a submission error as record_failure(0).
C6_SubmissionReportedOnce ==
    /\ Len(tick.reports) = tick.submits
    /\ cb.total_trades - tick.trades0 = tick.submits
    /\ tick.submits \in {0, 1}
    /\ tick.submits = 0 => cb.cumulative_pnl_mist = tick.pnl0
    /\ tick.submits = 1 =>
          LET o == Unwrap(tick.outcome)
              r == tick.reports[1]
              profit == IF IsSome(o.profit_mist) THEN Unwrap(o.profit_mist) ELSE 0
          IN  /\ o.kind = "success" =>
                    r.op = "record_success" /\ r.p = profit - o.gas_cost_mist
              /\ o.kind = "failure" =>
                    r.op = "record_failure" /\ r.p = 0 - o.gas_cost_mist
              /\ o.kind = "error" =>
                    r.op = "record_failure" /\ r.p = 0
              /\ cb.cumulative_pnl_mist = tick.pnl0 + r.p
              /\ r.op = "record_success" => cb.consecutive_failures = 0
              /\ r.op = "record_failure" => cb.consecutive_failures > 0

\* a tick has submitted and got a submission error, reported as a failure
C6_Witness ==
    /\ tick.submits = 1
    /\ Unwrap(tick.outcome).kind = "error"
    /\ tick.reports[1].op = "record_failure"

\* C7: in a tick where the breaker is tripped and the cooldown has not
\* elapsed, nothing follows the breaker check: no balance query, merge,
\* scan, build or submission.
C7_BlockedTickDoesNothing ==
    tick.blocked =>
        /\ tick.calls = {}
        /\ pc = "tick"
        /\ tick.submits = 0
        /\ best = None /\ tx_bytes = None

\* a tick found the breaker tripped within its cooldown
C7_Witness ==
    /\ tick.blocked
    /\ Tripped(cb)

C9_SubmitOnlyAfterDryRunPassed ==
    dry_run_enabled =>
        /\ (pc \in {"rebuild", "sign", "submit"}
               \/ tick.calls \cap {"rebuild", "sign", "submit"} # {}
               \/ tick.submits > 0)
              => tick.dry = "passed"
        /\ tick.dry \in {"error", "failed", "unprofitable"} =>
              /\ pc = "tick"
              /\ best = None /\ tx_bytes = None
              /\ tick.calls \cap {"rebuild", "sign", "submit"} = {}
              /\ tick.submits = 0

\* with dry-run enabled a transaction was submitted after a passing dry-run
C9_Witness ==
    /\ dry_run_enabled
    /\ tick.dry = "passed"
    /\ tick.submits = 1

\* C10, as stated: when the optimizer's best profit is zero the opportunity
\* is dropped, nothing is built, dry-run or submitted for it.  (The loop
\* keeps the scanner's estimate when max_profit is 0, so the zero guard
\* does not fire.)
C10_ZeroProfitDropped ==
    tick.zero_opt =>
        tick.calls \cap {"build", "dry_run", "rebuild", "sign", "submit"} = {}

\* C11: an opportunity reaches the transaction builder only if, when the
\* guards ran, expected_profit - estimated_gas > 0 and its age
\* now - detected_at_ms was within the limit (3000 ms).
C11_BuiltOnlyAfterGuardsPassed ==
    (pc \in {"build", "dry_run", "rebuild", "sign", "submit"}
        \/ tick.calls \cap {"build", "dry_run", "rebuild", "sign", "submit"} # {})
      => tick.guard = "ok"

\* an opportunity that passed the guards was handed to the builder
C11_Witness ==
    /\ "build" \in tick.calls
    /\ tick.guard = "ok"
    /\ IsSome(tx_bytes)

\* C12: with dry-run enabled, the bytes submitted are the bytes signed, and
\* they are built from the opportunity as the dry-run updated it: their
\* min_profit is max(1, 90% of the refined expected profit), the refined
\* profit being the ArbExecuted profit of the dry-run when it is present.
C12_SubmittedBytesAreRebuilt ==
    (dry_run_enabled /\ tick.submits = 1) =>
        /\ IsSome(tick.submitted)
        /\ tick.submitted = tick.signed
        /\ LET refined == Unwrap(tick.refined)
               expected == (refined * 9) \div 10
           IN  Unwrap(tick.submitted).min_profit = IF expected >= 1 THEN expected ELSE 1

\* a submission whose min_profit comes from a dry-run profit above the
\* estimate the first build used
C12_Witness ==
    /\ dry_run_enabled
    /\ tick.submits = 1
    /\ tick.refined = Some(MaxDryRunProfit)
    /\ Unwrap(tick.submitted).min_profit > 1

\* C14: in a tick where the heartbeat age exceeds 3 x the maximum pool
\* staleness the cycle is skipped: no snapshot, scan or arbitrage
\* submission follows.
C14_StaleHeartbeatSkipsCycle ==
    tick.hb_stale =>
        /\ pc = "tick"
        /\ tick.calls \cap {"snapshot", "scan", "optimize", "guards", "build",
                             "dry_run", "rebuild", "sign", "submit"} = {}
        /\ tick.submits = 0
        /\ best = None /\ tx_bytes = None

\* a liveness check read a heartbeat older than the limit
C14_Witness ==
    /\ tick.hb_stale
    /\ "liveness" \in tick.calls

\* ---------------------------------------------------------------------
\* Properties of Submitter::submit
\* ---------------------------------------------------------------------

\* C13: submit makes at most three attempts; retry number k (k = 1, 2)
\* starts no earlier than 200 ms x k after the attempt before it; the first
\* attempt that yields a result ends the call with that result, whatever
\* its on-chain status; an error is returned only after three errors.
C13_SubmitRetries ==
    /\ Len(sub.log) <= 3
    /\ \A k \in 1..Len(sub.log) :
          /\ k > 1 => /\ sub.log[k].slept = BackoffMs * (k - 1)
                      /\ sub.log[k].at >= sub.log[k - 1].at + BackoffMs * (k - 1)
          /\ k < Len(sub.log) => sub.log[k].outcome.kind = "error"
    /\ sub.pc = "attempt" =>
          \A k \in 1..Len(sub.log) : sub.log[k].outcome.kind = "error"
    /\ sub.pc = "done" =>
          LET final == sub.log[Len(sub.log)].outcome
          IN  /\ Len(sub.log) >= 1
              /\ final.kind # "error" => Unwrap(sub.ret).kind = final.kind
              /\ final.kind = "error" =>
                    /\ Len(sub.log) = 3
                    /\ Unwrap(sub.ret).kind = "error"
              /\ Unwrap(sub.ret).kind = "error" =>
                    /\ Len(sub.log) = 3
                    /\ \A k \in 1..3 : sub.log[k].outcome.kind = "error"

\* a call that returned an on-chain failure on its third attempt
C13_Witness ==
    /\ sub.pc = "done"
    /\ Len(sub.log) = 3
    /\ Unwrap(sub.ret).kind = "failure"

\* ---------------------------------------------------------------------
\* Properties of startup, the cache and the collectors
\* ---------------------------------------------------------------------

C16_PoolFailureDoesNotAbortCycle ==
    /\ poller.cycle.kind # "aborted"
    /\ poller.pc = "results" =>
          /\ Len(poller.steps) = poller.i - 1
          /\ \A k \in 1..Len(poller.steps) :
                IF poller.steps[k].parsed
                THEN poller.steps[k].effect = "upserted"
                ELSE poller.steps[k].effect = "kept"

\* a cycle went through both entries: the first failed and its pool kept
\* the state it had, the second parsed and was upserted
C16_Witness ==
    /\ poller.pc = "results"
    /\ poller.i > NumPools
    /\ ~poller.steps[1].parsed /\ poller.steps[1].effect = "kept"
    /\ poller.steps[2].parsed /\ poller.steps[2].effect = "upserted"
    /\ IsSome(cache[1])
    /\ Unwrap(cache[1]).last_updated_ms < poller.ts

\* C17: a failed batch RPC changes and removes no cache entry, and the
\* poller stays in its loop for the next tick.
C17_FailedBatchKeepsCache ==
    /\ poller.cycle.kind = "failed" =>
          /\ poller.cycle.cache_kept
          /\ poller.pc \in {"tick", "results"}
    /\ boot.pc \in {"strategy", "running"} => poller.pc \in {"tick", "results"}

\* after a failed batch RPC on a non-empty cache the poller has started its
\* next cycle
C17_Witness ==
    /\ poller.cycle.kind = "failed"
    /\ CacheLen(cache) = NumPools
    /\ poller.pc = "results"

\* C18, as stated: the last_updated_ms cached for a pool never decreases
\* across upserts, under any interleaving of the poller and a websocket
\* stream.  (The poller stamps every entry of a batch with the time taken
\* before its result loop, so it can overwrite a later websocket update.)
C18_LastUpdatedNeverDecreases ==
    ~written.decreased

C20_CacheNonEmptyAtStart ==
    boot.started => (boot.seed_ok /\ boot.cached_at_start > 0)

\* C20, amended: the strategy loop starts only after seed_cache returned Ok
\* (a failed seed request ends main); the cache then holds the pools that
\* parsed, which may be none.
C20_StrategyStartsAfterSeed ==
    /\ boot.started => boot.seed_ok
    /\ boot.pc = "aborted" => (~boot.started /\ ~boot.seed_ok /\ poller.pc = "off")
    /\ boot.cached_at_start <= NumPools

\* the strategy loop started after a seed in which no pool parsed
C20_Witness ==
    /\ boot.started
    /\ boot.seed_ok
    /\ boot.cached_at_start = 0

\* ---------------------------------------------------------------------
\* ternary_search on arbitrary profit functions (SpecSearch)
\* ---------------------------------------------------------------------

InitSearch ==
    /\ now = StartMs
    /\ cb = NewBreaker(MaxConsecLimit, MaxLossLimit, MaxCooldown)
    /\ last = Call("new", 0, StartMs, TRUE, cb)
    /\ run = 0
    /\ dry_run_enabled = TRUE
    /\ use_ws = FALSE
    /\ InitLoopVars
    /\ IdleScan
    /\ IdleSize
    /\ IdleClmm
    /\ \/ \E lo \in 0..MaxSearchAmount, hi \in 0..MaxSearchAmount, precision \in SearchPrecisions,
             simulate \in [0..MaxSearchAmount -> SearchProfits] :
             search_call = NewSearchCall(lo, hi, precision, simulate)
       \/ \E precision \in SearchPrecisions :
             search_call = NewSearchCall(0, 100, precision, Parabola)
       \/ \E precision \in SearchPrecisions, c \in 0..MaxTentAmount, lo \in {0, 1} :
             search_call = NewSearchCall(lo, MaxTentAmount, precision, Tent(c))

CallTernarySearch ==
    /\ search_call.ret = None
    /\ search_call' = [search_call EXCEPT !.ret =
          Some(ternary_search(search_call.lo, search_call.hi, search_call.precision,
                              search_call.simulate))]
    /\ UNCHANGED <<cbvars, loopvars, submitvars, collvars, scan_call, size_call, clmm_call>>

NextSearch == CallTernarySearch

SpecSearch == InitSearch /\ [][NextSearch]_vars

\* ---------------------------------------------------------------------
\* The strategy loop from the best opportunity to the built transaction
\* (SpecSize)
\* ---------------------------------------------------------------------

InitSize ==
    /\ now = StartMs
    /\ cb = NewBreaker(MaxConsecLimit, MaxLossLimit, MaxCooldown)
    /\ last = Call("new", 0, StartMs, TRUE, cb)
    /\ run = 0
    /\ dry_run_enabled = TRUE
    /\ use_ws = FALSE
    /\ InitLoopVars
    /\ IdleScan
    /\ IdleSearch
    /\ IdleClmm
    /\ \E flash_pool \in SizedPools(1), sell_pool \in SizedPools(2),
          est_profit \in {2, 3}, est_gas \in ScanGasEstimates :
          size_call = NewSizeCall(<<flash_pool, sell_pool>>,
                                  BestOver(est_profit, est_gas, StartMs))

\* the pool of the snapshot with this object id
FindPool(pools, object_id) ==
    LET found == {i \in 1..Len(pools) : pools[i].object_id = object_id}
    IN  IF found = {} THEN None
        ELSE Some(pools[CHOOSE i \in found : \A j \in found : i <= j])

\* main.rs step 4: run the optimizer on the best opportunity
OptimizeBest ==
    /\ size_call.search = None
    /\ size_call.pools # <<>>
    /\ LET flash_pool == FindPool(size_call.pools, size_call.best.pool_ids[1])
           sell_pool == FindPool(size_call.pools, size_call.best.pool_ids[2])
           built == build_local_simulator(Unwrap(flash_pool), Unwrap(sell_pool))
           ret == ternary_search(MinTradeMist, built.hi, TradePrecisionMist,
                                 built.simulate)
       IN  /\ IsSome(flash_pool) /\ IsSome(sell_pool)
           /\ size_call' = [size_call EXCEPT
                 !.hi = Some(built.hi),
                 !.search = Some([amount |-> ret.amount, profit |-> ret.profit]),
                 !.best = ApplyOptimizer(size_call.best, ret.amount, ret.profit)]
    /\ UNCHANGED <<cbvars, loopvars, submitvars, collvars, scan_call, search_call, clmm_call>>

\* main.rs steps 4b and 5: the guards, then ptb_builder.build(&best), in a
\* build of the program with or without overflow checks
BuildSized ==
    /\ IsSome(size_call.search)
    /\ size_call.args = None
    /\ ~size_call.panicked
    /\ LET guarded == PostOptimizationGuards(size_call.best, now)
       IN  /\ guarded.verdict = "pass"
           /\ \E overflow_checks \in BOOLEAN :
                 size_call' = IF overflow_checks /\ BuildArgsOverflows(guarded.opp)
                              THEN [size_call EXCEPT !.best = guarded.opp,
                                                     !.panicked = TRUE]
                              ELSE [size_call EXCEPT !.best = guarded.opp,
                                                     !.args = Some(BuildArgs(guarded.opp))]
    /\ UNCHANGED <<cbvars, loopvars, submitvars, collvars, scan_call, search_call, clmm_call>>

NextSize ==
    \/ OptimizeBest
    \/ BuildSized

SpecSize == InitSize /\ [][NextSize]_vars

\* ---------------------------------------------------------------------
\* simulate_clmm_arb on pools of every shape (SpecClmm)
\* ---------------------------------------------------------------------

InitClmm ==
    /\ now = StartMs
    /\ cb = NewBreaker(MaxConsecLimit, MaxLossLimit, MaxCooldown)
    /\ last = Call("new", 0, StartMs, TRUE, cb)
    /\ run = 0
    /\ dry_run_enabled = TRUE
    /\ use_ws = FALSE
    /\ InitLoopVars
    /\ IdleScan
    /\ IdleSearch
    /\ IdleSize
    /\ \E sqrt_price_1 \in ClmmSqrtPrices, liquidity_1 \in ClmmLiquidities,
          sqrt_price_2 \in ClmmSqrtPrices, liquidity_2 \in ClmmLiquidities,
          fee_bps_1 \in ClmmFees, fee_bps_2 \in ClmmFees, amount_in \in ClmmAmounts :
          clmm_call = NewClmmCall(sqrt_price_1, liquidity_1, sqrt_price_2, liquidity_2,
                                  fee_bps_1, fee_bps_2, amount_in)

CallSimulateClmmArb ==
    /\ clmm_call.run = None
    /\ clmm_call' = [clmm_call EXCEPT !.run =
          Some(ClmmRun(clmm_call.sqrt_price_1, clmm_call.liquidity_1,
                       clmm_call.sqrt_price_2, clmm_call.liquidity_2,
                       clmm_call.fee_bps_1, clmm_call.fee_bps_2, clmm_call.amount_in))]
    /\ UNCHANGED <<cbvars, loopvars, submitvars, collvars, scan_call, search_call, size_call>>

NextClmm == CallSimulateClmmArb

SpecClmm == InitClmm /\ [][NextClmm]_vars

\* ---------------------------------------------------------------------
\* Properties of the scanner
\* ---------------------------------------------------------------------

\* the pool of the scanned snapshot with this object id
PoolById(object_id) ==
    CHOOSE p \in {scan_call.pools[n] : n \in 1..Len(scan_call.pools)} : p.object_id = object_id

\* what the two scans returned, once they have
TwoHopOpps == IF IsSome(scan_call.two_hop) THEN Unwrap(scan_call.two_hop) ELSE <<>>
TriHopOpps == IF IsSome(scan_call.tri_hop) THEN Unwrap(scan_call.tri_hop) ELSE <<>>

\* C21, as stated: every two-hop opportunity names first the pool on which
\* coin A is cheaper (the flash source) and second the pool on which it is
\* dearer, coin A and coin B being the first two type_args, which are the
\* coin types of the first pool; for pools listing the pair in the same
\* order and in reversed order.  (For a reversed pair the prices are compared
\* in the orientation of whichever pool comes first in the list.)
C21_FlashPoolIsCheaper ==
    \A n \in 1..Len(TwoHopOpps) :
        LET o == TwoHopOpps[n]
            flash == PoolById(o.pool_ids[1])
            sell == PoolById(o.pool_ids[2])
            on_flash == pool_price_for_direction(flash, o.type_args[1], o.type_args[2])
            on_sell == pool_price_for_direction(sell, o.type_args[1], o.type_args[2])
        IN  /\ o.type_args[1] = flash.coin_type_a
            /\ o.type_args[2] = flash.coin_type_b
            /\ IsSome(on_flash) /\ IsSome(on_sell)
            /\ RatLess(Unwrap(on_flash), Unwrap(on_sell))

\* C22: no opportunity of scan_two_hop or scan_tri_hop names a pool whose
\* staleness, at the time the scan read the clock, exceeds the scanner's
\* max_staleness_ms.
C22_NoStalePoolInOpportunity ==
    /\ \A n \in 1..Len(TwoHopOpps) : \A k \in 1..Len(TwoHopOpps[n].pool_ids) :
          SatSub(Unwrap(scan_call.two_at), PoolById(TwoHopOpps[n].pool_ids[k]).last_updated_ms)
             <= scan_call.scanner.max_staleness_ms
    /\ \A n \in 1..Len(TriHopOpps) : \A k \in 1..Len(TriHopOpps[n].pool_ids) :
          SatSub(Unwrap(scan_call.tri_at), PoolById(TriHopOpps[n].pool_ids[k]).last_updated_ms)
             <= scan_call.scanner.max_staleness_ms

\* both scans ran on a list of four pools of which one was stale and one at
\* the edge of the staleness window, and a triangle was emitted
C22_Witness ==
    /\ IsSome(scan_call.two_hop)
    /\ TriHopOpps # <<>>
    /\ \E n \in 1..Len(scan_call.pools) :
          now - scan_call.pools[n].last_updated_ms > scan_call.scanner.max_staleness_ms
    /\ \E n \in 1..Len(scan_call.pools) :
          /\ now - scan_call.pools[n].last_updated_ms = scan_call.scanner.max_staleness_ms
          /\ \E m \in 1..Len(TriHopOpps), k \in 1..3 :
                TriHopOpps[m].pool_ids[k] = scan_call.pools[n].object_id

\* venues with a flash-swap primitive, and venues a sell leg can use
FlashVenues == {"Cetus", "Turbos", "DeepBook", "FlowxClmm"}
SellVenues == {"Cetus", "Turbos", "DeepBook", "FlowxClmm", "Aftermath"}

\* C23: every two-hop opportunity carries the strategy of the dispatch table
\* for (venue of pool_ids[0], venue of pool_ids[1]), named <flash>To<sell>;
\* none has its flash pool on Aftermath or FlowX AMM, its sell pool on FlowX
\* AMM, or both pools on one venue.
C23_StrategyFollowsDispatchTable ==
    \A n \in 1..Len(TwoHopOpps) :
        LET flash_dex == PoolById(TwoHopOpps[n].pool_ids[1]).dex
            sell_dex == PoolById(TwoHopOpps[n].pool_ids[2]).dex
        IN  /\ flash_dex \in FlashVenues
            /\ sell_dex \in SellVenues
            /\ flash_dex # sell_dex
            /\ TwoHopOpps[n].strategy = flash_dex \o "To" \o sell_dex

\* a two-hop opportunity selling on Aftermath was emitted
C23_Witness ==
    /\ Len(TwoHopOpps) = 1
    /\ PoolById(TwoHopOpps[1].pool_ids[1]).dex = "DeepBook"
    /\ PoolById(TwoHopOpps[1].pool_ids[2]).dex = "Aftermath"
    /\ TwoHopOpps[1].strategy = "DeepBookToAftermath"

\* what identifies an opportunity: strategy, ordered pool ids, type_args
OppKeys(opps) ==
    {<<opps[n].strategy, opps[n].pool_ids, opps[n].type_args>> : n \in 1..Len(opps)}

\* scan_two_hop returned the same opportunities for both orders of the list
TwoHopSameAsBefore ==
    (IsSome(scan_call.prior) /\ IsSome(scan_call.two_hop))
        => OppKeys(TwoHopOpps) = OppKeys(Unwrap(scan_call.prior).two_hop)

\* scan_tri_hop returned the same opportunities for both orders of the list
TriHopSameAsBefore ==
    (IsSome(scan_call.prior) /\ IsSome(scan_call.tri_hop))
        => OppKeys(TriHopOpps) = OppKeys(Unwrap(scan_call.prior).tri_hop)

\* C24, as stated: for every order of the same pools scan_two_hop and
\* scan_tri_hop return the same set of opportunities (strategy, ordered pool
\* ids, type_args).  (The scans depend on the order: a reversed pair is
\* compared in the orientation of its first pool, and a triangle is resolved
\* and deduplicated in enumeration order.)
C24_ScanIsOrderIndependent ==
    TwoHopSameAsBefore /\ TriHopSameAsBefore

\* C25, as stated: scan_tri_hop never returns two opportunities over the
\* same set of three pool ids.  (dedup_by drops an entry only when the entry
\* kept just before it is over the same pools, and it runs before the sort.)
C25_OneOpportunityPerTriangle ==
    \A m, n \in 1..Len(TriHopOpps) :
        m # n => {TriHopOpps[m].pool_ids[k] : k \in 1..3} # {TriHopOpps[n].pool_ids[k] : k \in 1..3}

\* the venue triples with a tri-hop strategy whose three legs swap a2b
TriVenues ==
    { <<"Cetus", "Cetus", "Cetus">>, <<"Cetus", "Cetus", "Turbos">>,
      <<"Cetus", "Turbos", "DeepBook">>, <<"Cetus", "DeepBook", "Turbos">>,
      <<"DeepBook", "Cetus", "Turbos">>, <<"Cetus", "Cetus", "Aftermath">>,
      <<"Cetus", "Turbos", "Aftermath">>, <<"Cetus", "Cetus", "FlowxClmm">>,
      <<"Cetus", "FlowxClmm", "Turbos">>, <<"FlowxClmm", "Cetus", "Turbos">> }
\* and those with a strategy whose third leg swaps b2a
TriVenuesV2 == { <<"Cetus", "Cetus", "Cetus">> }

SearchRet == Unwrap(search_call.ret)

\* C27, as stated: for every lo, hi, precision and profit function the search
\* stops after at most 100 iterations and returns (x, p) with lo <= x <= hi,
\* p = f(x), and p >= f(y) for every amount y it simulated, the final
\* midpoint included.  (With hi < lo it returns lo; when no simulated amount
\* has a positive profit it returns (lo, 0) without having simulated lo.)
C27_SearchReturnsBestEvaluated ==
    IsSome(search_call.ret) =>
        /\ SearchRet.iterations <= 100
        /\ search_call.lo <= SearchRet.amount /\ SearchRet.amount <= search_call.hi
        /\ SearchRet.profit = search_call.simulate[SearchRet.amount]
        /\ \A y \in SearchRet.evaluated : SearchRet.profit >= search_call.simulate[y]

\* C27, amended: the search stops after at most 100 iterations.  With
\* hi <= lo it returns (lo, f(lo)).  Otherwise it returns (x, p) with
\* p >= f(y) for every amount y it simulated, the final midpoint included;
\* if p > 0 then x is one of the simulated amounts, lo <= x <= hi and
\* p = f(x); if p = 0 then x = lo, simulated or not.
C27_SearchReturnsBestPositive ==
    IsSome(search_call.ret) =>
        /\ SearchRet.iterations <= 100
        /\ \A y \in SearchRet.evaluated : SearchRet.profit >= search_call.simulate[y]
        /\ search_call.hi <= search_call.lo =>
              /\ SearchRet.amount = search_call.lo
              /\ SearchRet.profit = search_call.simulate[search_call.lo]
        /\ (search_call.hi > search_call.lo /\ SearchRet.profit > 0) =>
              /\ SearchRet.amount \in SearchRet.evaluated
              /\ search_call.lo <= SearchRet.amount /\ SearchRet.amount <= search_call.hi
              /\ SearchRet.profit = search_call.simulate[SearchRet.amount]
        /\ (search_call.hi > search_call.lo /\ SearchRet.profit = 0) =>
              SearchRet.amount = search_call.lo

\* a search that was cut off by the iteration bound returned a positive
\* profit found at the final midpoint only
C27_Witness ==
    /\ IsSome(search_call.ret)
    /\ SearchRet.iterations = 100
    /\ SearchRet.profit > 0
    /\ \A y \in SearchRet.evaluated :
          search_call.simulate[y] = SearchRet.profit => y = SearchRet.amount
    /\ SearchRet.amount = search_call.lo + 1
    /\ search_call.hi - search_call.lo > 2

\* the profit function is concave on the interval searched: its increments
\* do not increase
SearchedConcave ==
    \A x \in search_call.lo .. (search_call.hi - 2) :
        search_call.simulate[x + 2] - search_call.simulate[x + 1]
            <= search_call.simulate[x + 1] - search_call.simulate[x]

\* the amounts of the interval searched with the largest profit
Maximisers ==
    {x \in search_call.lo .. search_call.hi :
        \A y \in search_call.lo .. search_call.hi :
            search_call.simulate[y] <= search_call.simulate[x]}

C29_BuiltAmountWithinTradeLimits ==
    /\ IsSome(size_call.hi) =>
          /\ Unwrap(size_call.hi) = MinOf(max_trade_amount(size_call.pools[1]),
                                          max_trade_amount(size_call.pools[2]))
          /\ \A i \in 1..2 :
                /\ MinTradeMist <= max_trade_amount(size_call.pools[i])
                /\ max_trade_amount(size_call.pools[i]) <= MaxTradeMist
          /\ MinTradeMist <= Unwrap(size_call.hi) /\ Unwrap(size_call.hi) <= MaxTradeMist
    /\ IsSome(size_call.args) =>
          /\ MinTradeMist <= Unwrap(size_call.args).amount
          /\ Unwrap(size_call.args).amount <= MaxTradeMist

\* a transaction built with the amount the search found at the upper bound,
\* for a pool whose raw bound is beyond MAX_TRADE_MIST
C29_Witness ==
    /\ IsSome(size_call.args)
    /\ Unwrap(size_call.search).profit > 0
    /\ Unwrap(size_call.args).amount = Unwrap(size_call.search).amount
    /\ Unwrap(size_call.args).amount > ScanAmount
    /\ \E i \in 1..2 : MaxTradeRaw(size_call.pools[i]) > MaxTradeMist

\* the min_profit the specification gives for an expected profit
MinProfitFor(expected_profit) ==
    IF (expected_profit * 9) \div 10 >= 1 THEN (expected_profit * 9) \div 10 ELSE 1

\* C31: the min_profit argument of every built transaction is
\* max(1, floor(expected_profit * 9 / 10)), for every expected profit the
\* builder receives: every build ends with these arguments, min_profit is at
\* least 1 and never above an expected profit of 1 or more.
C31_MinProfitIsNinetyPercent ==
    /\ ~size_call.panicked
    /\ IsSome(size_call.args) =>
          /\ Unwrap(size_call.args).min_profit = MinProfitFor(size_call.best.expected_profit)
          /\ Unwrap(size_call.args).min_profit >= 1
          /\ size_call.best.expected_profit >= 1 =>
                Unwrap(size_call.args).min_profit <= size_call.best.expected_profit

\* ---------------------------------------------------------------------
\* Properties of the gas monitor
\* ---------------------------------------------------------------------

\* the call issued a balance RPC
IssuedRpc(c) == c.op = "check_balance" /\ c.how \in {"fetched", "rpc_failed"}

C33_FetchOnlyOutsideWindow ==
    /\ IssuedRpc(last) =>
          \/ last.prev_fetched_at = None
          \/ last.at - Unwrap(last.prev_fetched_at) >= FetchIntervalMs
    /\ (last.op = "check_balance" /\ last.how = "cached") =>
          /\ last.ok = (last.pre.cached_balance >= last.pre.min_balance_mist)
          /\ gm = last.pre
    /\ last.op = "deduct_gas" =>
          /\ gm.cached_balance =
                (IF last.pre.cached_balance >= last.p
                 THEN last.pre.cached_balance - last.p ELSE 0)
          /\ gm.cached_balance >= 0
          /\ gm.last_fetch_ms = last.pre.last_fetch_ms

\* a call inside the window that refuses on a cached balance which
\* deduct_gas took below the minimum, down to 0
C33_Witness ==
    /\ last.op = "check_balance"
    /\ last.how = "cached"
    /\ ~last.ok
    /\ last.pre.cached_balance = 0
    /\ IsSome(last.prev_fetched_at)
    /\ last.at - Unwrap(last.prev_fetched_at) < FetchIntervalMs
    /\ last.at > Unwrap(last.prev_fetched_at)

\* ---------------------------------------------------------------------
\* Properties of the coin merger
\* ---------------------------------------------------------------------

\* C34: maybe_merge queries the coins only on every CheckIntervalCycles-th
\* call and returns Ok(None) without a request on the others; the counter
\* advances on every call, also on one whose RPC fails.
C34_MergeQueriesOnIntervalOnly ==
    /\ last.n = cycle_count
    /\ last.n % CheckIntervalCycles # 0 => (last.requests = <<>> /\ last.ret = Some("none"))
    /\ last.requests # <<>> => (last.n > 0 /\ last.n % CheckIntervalCycles = 0)
    /\ (last.n > 0 /\ last.n % CheckIntervalCycles = 0 /\ IsSome(last.ret)) =>
          last.requests # <<>>

\* the second interval call, after a first one whose RPC failed
C34_Witness ==
    /\ cycle_count = 2 * CheckIntervalCycles
    /\ last.requests # <<>>
    /\ last.ret = Some("error")

\* no cursor is requested twice
NoPageTwice(requests) ==
    \A i, j \in 1..Len(requests) : i # j => requests[i] # requests[j]

\* served by the wallet's pages, the enumeration asks for each page once
\* and returns all the coins
HonestEnumerationIsComplete ==
    last.honest =>
        /\ NoPageTwice(last.requests)
        /\ (IsSome(last.ret) /\ Unwrap(last.ret) # "error" /\ last.requests # <<>>) =>
              /\ last.all_coins = [c \in 1..last.pages |-> c]
              /\ last.requests = [c \in 1..last.pages |-> IF c = 1 THEN None ELSE Some(c)]

\* C40: the coin enumeration requests each page once, following
\* nextCursor, and ends with the coins of all pages at the first page that
\* reports hasNextPage = false, whatever the server answers.
C40_EachCoinPageRequestedOnce ==
    /\ NoPageTwice(last.requests)
    /\ HonestEnumerationIsComplete

\* ---------------------------------------------------------------------
\* Properties of the CLMM simulator
\* ---------------------------------------------------------------------

ClmmRet == Unwrap(clmm_call.run)

\* simulate_clmm_arb never leaves by a panic
ClmmNeverPanics == IsSome(clmm_call.run) => ~ClmmRet.panicked

\* a checked_mul without a product, or a subtraction that saturated, gives 0
ClmmOverflowGivesZero ==
    (IsSome(clmm_call.run) /\ (ClmmRet.overflowed \/ ClmmRet.saturated)) => ClmmRet.ret = 0

\* a zero liquidity or sqrt-price gives 0
ClmmZeroInputGivesZero ==
    (IsSome(clmm_call.run) /\ (clmm_call.liquidity_1 = 0 \/ clmm_call.liquidity_2 = 0
                               \/ clmm_call.sqrt_price_1 = 0 \/ clmm_call.sqrt_price_2 = 0))
        => ClmmRet.ret = 0

\* an input beyond the single-tick capacity of a leg gives 0
ClmmExceededGivesZero == (IsSome(clmm_call.run) /\ ClmmRet.exceeded) => ClmmRet.ret = 0

\* a shift that dropped set bits gives 0
ClmmLostBitsGiveZero == (IsSome(clmm_call.run) /\ ClmmRet.lost_bits) => ClmmRet.ret = 0

\* equal sqrt-prices on both legs give 0
ClmmEqualPricesGiveZero ==
    (IsSome(clmm_call.run) /\ clmm_call.sqrt_price_1 = clmm_call.sqrt_price_2)
        => ClmmRet.ret = 0

\* C30: simulate_clmm_arb never panics, and it returns 0 whenever a
\* fixed-point operation overflows or loses high bits, whenever a liquidity
\* or sqrt-price is 0, whenever the input exceeds the single-tick capacity
\* of a leg, and whenever both legs have the same sqrt-price.
C30_ClmmShortCircuitsToZero ==
    /\ ClmmNeverPanics
    /\ ClmmOverflowGivesZero
    /\ ClmmZeroInputGivesZero
    /\ ClmmExceededGivesZero
    /\ ClmmLostBitsGiveZero
    /\ ClmmEqualPricesGiveZero

\* ---------------------------------------------------------------------
\* The loss limit at the trading gate (SpecCB)
\* ---------------------------------------------------------------------

\* the loss recorded so far has reached the limit
LossLimitReached(s) == 0 - s.cumulative_pnl_mist >= s.max_cumulative_loss_mist

\* C35: whenever is_trading_allowed returns true, the cumulative loss is
\* below the limit (-cumulative_pnl_mist < max_cumulative_loss_mist), after
\* any sequence of record_success / record_failure calls and cooldown
\* resets, successes with a negative net included.
C35_AllowedImpliesLossBelowLimit ==
    (last.op = "is_trading_allowed" /\ last.ret) => ~LossLimitReached(cb)

\* the same with no breaker ever tripped: the loss of successes alone
C35_UntrippedAllowedImpliesLossBelowLimit ==
    (last.op = "is_trading_allowed" /\ last.ret /\ ~Tripped(last.pre))
        => ~LossLimitReached(cb)

\* ---------------------------------------------------------------------
\* The direction of an emitted triangle (SpecScan)
\* ---------------------------------------------------------------------

\* the strategies whose third leg swaps b2a
V2Strategies == {"TriCetusCetusCetusV2"}

\* the rate of the cycle an opportunity executes: pool_ids[1] and pool_ids[2]
\* swap a2b, pool_ids[3] swaps a2b, or b2a under a V2 strategy
ExecutedCrossRate(o) ==
    LET p1 == PoolById(o.pool_ids[1])
        p2 == PoolById(o.pool_ids[2])
        p3 == PoolById(o.pool_ids[3])
        leg1 == pool_price_for_direction(p1, p1.coin_type_a, p1.coin_type_b)
        leg2 == pool_price_for_direction(p2, p2.coin_type_a, p2.coin_type_b)
        leg3 == IF o.strategy \in V2Strategies
                THEN pool_price_for_direction(p3, p3.coin_type_b, p3.coin_type_a)
                ELSE pool_price_for_direction(p3, p3.coin_type_a, p3.coin_type_b)
    IN  RatMul(RatMul(Unwrap(leg1), Unwrap(leg2)), Unwrap(leg3))

\* C36: for every emitted tri-hop opportunity, the cycle executed by its
\* ordered pool_ids, in the swap directions of its calling convention, is
\* the direction whose cross-rate passed the profitability test (above 1.01
\* and below 1 + MAX_REALISTIC_SPREAD), never the reverse direction.
C36_ExecutedCycleIsTheProfitableOne ==
    \A n \in 1..Len(TriHopOpps) :
        LET r == ExecutedCrossRate(TriHopOpps[n])
        IN  RatLess(MinCrossRate, r) /\ RatLess(r, MaxCrossRate)

\* some emitted triangle executes the direction that passed the test
C36_SomeTriangleExecutesTestedDirection ==
    \E n \in 1..Len(TriHopOpps) : RatLess(MinCrossRate, ExecutedCrossRate(TriHopOpps[n]))

\* ---------------------------------------------------------------------
\* Liveness of the collectors as the strategy loop sees it (SpecCollector)
\* ---------------------------------------------------------------------

\* so far every liveness window has seen a pool upserted by the batch
\* poller or the websocket stream, the window that ends now included
UpsertInEveryWindow ==
    /\ ~written.gap
    /\ now - LatestUpsert(written) <= LivenessWindow

\* C37: as long as some collector task (batch poller or websocket stream)
\* upserts at least one pool within every window of 3 x maximum pool
\* staleness, the collector-liveness check never skips a tick: the heartbeat
\* a tick would load is not older than the window.
C37_UpsertsKeepTicksRunning ==
    (boot.started /\ UpsertInEveryWindow) => ~HeartbeatStale(SatSub(now, heartbeat))

\* the same with the batch poller as the only collector, between its cycles
C37_PollerAloneKeepsTicksRunning ==
    (boot.started /\ ~use_ws /\ poller.pc = "tick" /\ UpsertInEveryWindow)
        => ~HeartbeatStale(SatSub(now, heartbeat))

\* ---------------------------------------------------------------------
\* What a tick leaves alone before it submits (SpecLoop)
\* ---------------------------------------------------------------------

\* a step records nothing in the breaker
NothingRecorded ==
    /\ cb'.total_trades = cb.total_trades
    /\ cb'.cumulative_pnl_mist = cb.cumulative_pnl_mist
    /\ cb'.tripped_at_ms = cb.tripped_at_ms \/ cb'.tripped_at_ms = None
    /\ cb'.consecutive_failures \in {0, cb.consecutive_failures}

\* C38: a tick whose arbitrage attempt ends before a submission is attempted
\* (stale heartbeat, empty or stale cache, no opportunity, a guard drop,
\* build failure, dry-run rejection, signing failure) records neither a
\* success nor a failure in the breaker and deducts nothing from the cached
\* gas balance for the arbitrage; coin-merge outcomes are never recorded in
\* the breaker.  Step by step: only the submit step records in the breaker;
\* besides it, only the balance check and a coin merge touch the gas monitor.
C38_NoReportBeforeSubmission ==
    [][ /\ pc # "submit" => NothingRecorded
        /\ pc \notin {"tick", "submit"} => cb' = cb
        /\ pc \notin {"gas", "merge", "submit"} => gm' = gm
        /\ pc = "merge" => \/ gm' = gm
                           \/ \E gas \in GasCosts : gm' = DeductGas(gm, gas) ]_vars

\* a tick that merged coins on-chain and got as far as signing ended without
\* a submission, with the breaker as it was when the tick began
C38_Witness ==
    /\ pc = "tick"
    /\ {"merge_submit", "sign"} \subseteq tick.calls
    /\ tick.submits = 0
    /\ tick.reports = <<>>
    /\ cb.total_trades = tick.trades0
    /\ cb.cumulative_pnl_mist = tick.pnl0

\* ---------------------------------------------------------------------
\* CLOB pools in the scans (SpecScan)
\* ---------------------------------------------------------------------

\* every DeepBook pool of the scanned snapshot is as the parser leaves one
FromCollector ==
    \A n \in 1..Len(scan_call.pools) :
        LET p == scan_call.pools[n]
        IN  p.dex = "DeepBook" =>
               p = deepbook_parse(p.object_id, p.coin_type_a, p.coin_type_b,
                                  p.reserve_a, p.reserve_b, p.last_updated_ms)

\* the opportunity names a DeepBook pool
NamesClobPool(o) ==
    \E k \in 1..Len(o.pool_ids) : PoolById(o.pool_ids[k]).dex = "DeepBook"

\* C39: no opportunity that references a CLOB (DeepBook) pool is emitted for
\* pools produced by the collector: the PoolState the DeepBook parser
\* produces has neither best_bid nor best_ask, price_a_in_b is None for it,
\* and the scanner skips every pair and every triangle containing it.
C39_NoClobPoolInOpportunity ==
    FromCollector =>
        /\ \A n \in 1..Len(scan_call.pools) :
              scan_call.pools[n].dex = "DeepBook" => price_a_in_b(scan_call.pools[n]) = None
        /\ \A n \in 1..Len(TwoHopOpps) : ~NamesClobPool(TwoHopOpps[n])
        /\ \A n \in 1..Len(TriHopOpps) : ~NamesClobPool(TriHopOpps[n])

\* both scans ran over two priced pools with a spread and a fresh DeepBook
\* pool that came from the parser with both vault balances, on the pair of
\* the first pool; the two priced pools gave an opportunity
C39_Witness ==
    /\ FromCollector
    /\ IsSome(scan_call.two_hop) /\ IsSome(scan_call.tri_hop)
    /\ TwoHopOpps # <<>>
    /\ \E n \in 1..Len(scan_call.pools) :
          LET p == scan_call.pools[n]
          IN  /\ p.dex = "DeepBook"
              /\ IsSome(p.reserve_a) /\ IsSome(p.reserve_b)
              /\ p.reserve_a # p.reserve_b
              /\ same_pair(p, PoolById(1))
              /\ staleness_ms(p, Unwrap(scan_call.two_at)) <= scan_call.scanner.max_staleness_ms

====
